---- MODULE Spec2Model ----
(***************************************************************************)
(* Model of the skill-match engine: the skill set normaliser, the pairwise *)
(* similarity scorer and gap analyser, the match ranker, the TF-IDF        *)
(* matcher, the persistence of JobMatch / SkillGap rows through one        *)
(* SQLAlchemy session, the batch scheduler and the industry alignment      *)
(* snapshots.                                                              *)
(*                                                                         *)
(* Numbers.  Weights (proficiency, importance, confidence) are fixed point *)
(* in twentieths: 20 is 1.0 and 40 is 2.0.  Scores (jaccard, cosine,       *)
(* weighted, overall, coverage, alignment) are fixed point in thousandths: *)
(* 1000 is 1.0.  Time is counted in half hours.                            *)
(***************************************************************************)
EXTENDS Integers, Sequences, FiniteSets, TLC

\* ---------------------------------------------------------------- bounds
NUsers == 3
NJobs == 3
MaxDay == 1
MaxRuns == 2
NAlignJobs == 6
MaxTime == 3
MaxAlignOps == 3
MaxCalcSkills == 3

\* ------------------------------------------------------ program constants
W == 20
S == 1000
MinMatchingSkills == 2
MinJobSkills == 2
UserTechBoostNum == 12
JobTechBoostNum == 13
UserWeightCap == 20
JobWeightCap == 40
DefaultImportance == 20
DefaultLimit == 50
UploadLimit == 100

Users == 1..NUsers
Jobs == 1..NJobs

Min(a, b) == IF a <= b THEN a ELSE b
Max(a, b) == IF a >= b THEN a ELSE b

RECURSIVE SetToSeq(_)
SetToSeq(X) == IF X = {} THEN <<>>
               ELSE LET m == CHOOSE x \in X : \A y \in X : x <= y
                    IN <<m>> \o SetToSeq(X \ {m})

RECURSIVE SumOver(_, _)
SumOver(X, f) == IF X = {} THEN 0
                 ELSE LET x == CHOOSE y \in X : TRUE
                      IN f[x] + SumOver(X \ {x}, f)

\* floor of the square root, by bisection on lo..hi
RECURSIVE ISqrtIn(_, _, _)
ISqrtIn(x, lo, hi) == IF lo >= hi THEN lo
                      ELSE LET mid == (lo + hi + 1) \div 2
                           IN IF mid * mid <= x THEN ISqrtIn(x, mid, hi)
                              ELSE ISqrtIn(x, lo, mid - 1)
ISqrt(x) == ISqrtIn(x, 0, 46340)

\* ------------------------------------------------- utils/skill_filters.py
\* The label universe of the model; every function below is the source's
\* function restricted to these labels.
Labels == {"python", "javascript", "mysql", "postgresql", "sql", "excel",
           "aws", "tableau", "communication", "js", "testing"}

\* len <= 2 ("js"), generic_noise_skills ("communication"),
\* partial_phrases_and_common_words ("testing")
is_valid_skill(name) == name \notin {"js", "communication", "testing"}

\* substitutions: 'javascript' -> 'js', 'mysql' -> 'sql', 'postgresql' -> 'sql'
normalize_skill_name(name) ==
    CASE name = "javascript" -> "js"
      [] name \in {"mysql", "postgresql"} -> "sql"
      [] OTHER -> name

\* any(keyword in skill_lower): python, javascript/js, sql/mysql/postgresql,
\* aws and testing hold a technical keyword; excel, tableau, communication none
is_technical_skill(name) ==
    name \in {"python", "javascript", "js", "mysql", "postgresql", "sql",
              "aws", "testing"}

\* ------------------------------------------------ services/job_matching.py
EmptyDict == [k \in {} |-> 0]

DictPut(d, k, v) == [x \in (DOMAIN d) \cup {k} |-> IF x = k THEN v ELSE d[x]]

\* a fold in which the last row of a canonical name replaces the entry
RECURSIVE FoldUserSkillsLastWins(_, _)
FoldUserSkillsLastWins(rows, filtered_skills) ==
    IF rows = <<>> THEN filtered_skills
    ELSE LET row == Head(rows)
             proficiency == IF is_technical_skill(row.name)
                            THEN Min(UserWeightCap, (row.weight * UserTechBoostNum) \div 10)
                            ELSE row.weight
         IN IF ~is_valid_skill(row.name)
            THEN FoldUserSkillsLastWins(Tail(rows), filtered_skills)
            ELSE FoldUserSkillsLastWins(Tail(rows),
                     DictPut(filtered_skills, normalize_skill_name(row.name), proficiency))

\* _get_user_skills: rows is the result of the user_skills_emsi query, in
\* the order the rows are read
RECURSIVE FoldUserSkills(_, _)
FoldUserSkills(rows, filtered_skills) ==
    IF rows = <<>> THEN filtered_skills
    ELSE LET row == Head(rows)
             normalized_name == normalize_skill_name(row.name)
             proficiency == IF is_technical_skill(row.name)
                            THEN Min(UserWeightCap, (row.weight * UserTechBoostNum) \div 10)
                            ELSE row.weight
         IN IF ~is_valid_skill(row.name)
            THEN FoldUserSkills(Tail(rows), filtered_skills)
            ELSE IF normalized_name \in DOMAIN filtered_skills
            THEN FoldUserSkills(Tail(rows),
                     [filtered_skills EXCEPT ![normalized_name] = Max(@, proficiency)])
            ELSE FoldUserSkills(Tail(rows),
                     DictPut(filtered_skills, normalized_name, proficiency))

get_user_skills(rows) == FoldUserSkills(rows, EmptyDict)

\* the inner loop of _get_jobs_with_skills over one job's job_skills_emsi rows
RECURSIVE FoldJobSkills(_, _)
FoldJobSkills(rows, filtered_skills) ==
    IF rows = <<>> THEN filtered_skills
    ELSE LET skill == Head(rows)
             normalized_name == normalize_skill_name(skill.name)
             raw == IF skill.weight = 0 THEN DefaultImportance ELSE skill.weight
             importance == IF is_technical_skill(skill.name)
                           THEN Min(JobWeightCap, (raw * JobTechBoostNum) \div 10)
                           ELSE raw
         IN IF ~is_valid_skill(skill.name)
            THEN FoldJobSkills(Tail(rows), filtered_skills)
            ELSE IF normalized_name \in DOMAIN filtered_skills
            THEN FoldJobSkills(Tail(rows),
                     [filtered_skills EXCEPT ![normalized_name] = Max(@, importance)])
            ELSE FoldJobSkills(Tail(rows),
                     DictPut(filtered_skills, normalized_name, importance))

\* a job list that also takes the postings that are not active
RECURSIVE jobs_with_skills_inactive_too(_, _)
jobs_with_skills_inactive_too(jobTable, order) ==
    IF order = <<>> THEN <<>>
    ELSE LET job == jobTable[Head(order)]
             filtered_skills == FoldJobSkills(job.skills, EmptyDict)
             rest == jobs_with_skills_inactive_too(jobTable, Tail(order))
         IN IF job.skills # <<>> /\ Cardinality(DOMAIN filtered_skills) >= MinJobSkills
            THEN <<[id |-> Head(order), skills |-> filtered_skills]>> \o rest
            ELSE rest

\* _get_jobs_with_skills: jobTable maps a job id to its posting, order is
\* the order in which the query returns the job ids
RECURSIVE get_jobs_with_skills(_, _)
get_jobs_with_skills(jobTable, order) ==
    IF order = <<>> THEN <<>>
    ELSE LET job == jobTable[Head(order)]
             filtered_skills == FoldJobSkills(job.skills, EmptyDict)
             rest == get_jobs_with_skills(jobTable, Tail(order))
         IN IF job.active /\ job.skills # <<>>
               /\ Cardinality(DOMAIN filtered_skills) >= MinJobSkills
            THEN <<[id |-> Head(order), skills |-> filtered_skills]>> \o rest
            ELSE rest

\* a ratio over the job's skills only
jaccard_over_job(user_skill_ids, job_skill_ids) ==
    IF job_skill_ids # {}
    THEN (Cardinality(user_skill_ids \cap job_skill_ids) * S) \div Cardinality(job_skill_ids)
    ELSE 0

\* lines 451-454: len(intersection) / len(union) if union else 0.0
jaccard_of(user_skill_ids, job_skill_ids) ==
    LET intersection == user_skill_ids \cap job_skill_ids
        union == user_skill_ids \cup job_skill_ids
    IN IF union # {} THEN (Cardinality(intersection) * S) \div Cardinality(union) ELSE 0

\* lines 471-489: weighted_score / total_weight + technical_bonus /
\* total_weight, before the clamp; the bonus is half the base score of the
\* technical skills the user has
weighted_raw(user_skills, job_skills) ==
    LET job_skill_ids == DOMAIN job_skills
        intersection == DOMAIN user_skills \cap job_skill_ids
        weighted_score ==
            SumOver(intersection, [k \in intersection |-> user_skills[k] * job_skills[k]])
        total_weight == SumOver(job_skill_ids, [k \in job_skill_ids |-> job_skills[k]])
        tech == {k \in intersection : user_skills[k] > 0 /\ is_technical_skill(k)}
        technical_bonus2 == SumOver(tech, [k \in tech |-> user_skills[k] * job_skills[k]])
    IN IF total_weight > 0
       THEN (S * (2 * weighted_score + technical_bonus2)) \div (2 * W * total_weight)
       ELSE 0

\* the weighted similarity without its upper limit
weighted_unclamped(user_skills, job_skills) == weighted_raw(user_skills, job_skills)

\* lines 489-493: min(1.0, weighted_sim + technical_bonus / total_weight)
weighted_of(user_skills, job_skills) == Min(S, weighted_raw(user_skills, job_skills))

\* _calculate_similarity
calculate_similarity(user_skills, job_skills) ==
    LET user_skill_ids == DOMAIN user_skills
        job_skill_ids == DOMAIN job_skills
        intersection == user_skill_ids \cap job_skill_ids
        union == user_skill_ids \cup job_skill_ids
        jaccard == jaccard_of(user_skill_ids, job_skill_ids)
        dot == SumOver(intersection, [k \in intersection |-> user_skills[k] * job_skills[k]])
        nu == SumOver(user_skill_ids, [k \in user_skill_ids |-> user_skills[k] * user_skills[k]])
        nj == SumOver(job_skill_ids, [k \in job_skill_ids |-> job_skills[k] * job_skills[k]])
        cosine_sim == IF nu = 0 \/ nj = 0 THEN 0
                      ELSE (dot * S * 4) \div ISqrt(16 * nu * nj)
        weighted_sim == weighted_of(user_skills, job_skills)
        overall == (jaccard * 2 + cosine_sim * 3 + weighted_sim * 5) \div 10
    IN IF union = {}
       THEN [overall |-> 0, jaccard |-> 0, cosine |-> 0, weighted |-> 0]
       ELSE [overall |-> overall, jaccard |-> jaccard, cosine |-> cosine_sim,
             weighted |-> weighted_sim]

\* a gap analysis whose coverage is taken over the user's skills
analyze_skill_gaps_over_user(user_skills, job_skills) ==
    LET user_skill_ids == DOMAIN user_skills
        job_skill_ids == DOMAIN job_skills
        matching_skills == user_skill_ids \cap job_skill_ids
        missing_skills == job_skill_ids \ user_skill_ids
    IN [matching_skills |-> matching_skills,
        missing_skills |-> missing_skills,
        coverage |-> IF user_skill_ids # {}
                     THEN (Cardinality(matching_skills) * S) \div Cardinality(user_skill_ids)
                     ELSE 0,
        total_required |-> Cardinality(job_skill_ids),
        total_matching |-> Cardinality(matching_skills),
        total_missing |-> Cardinality(missing_skills)]

\* _analyze_skill_gaps
analyze_skill_gaps(user_skills, job_skills) ==
    LET user_skill_ids == DOMAIN user_skills
        job_skill_ids == DOMAIN job_skills
        matching_skills == user_skill_ids \cap job_skill_ids
        missing_skills == job_skill_ids \ user_skill_ids
    IN [matching_skills |-> matching_skills,
        missing_skills |-> missing_skills,
        coverage |-> IF job_skill_ids # {}
                     THEN (Cardinality(matching_skills) * S) \div Cardinality(job_skill_ids)
                     ELSE 0,
        total_required |-> Cardinality(job_skill_ids),
        total_matching |-> Cardinality(matching_skills),
        total_missing |-> Cardinality(missing_skills)]

\* a key that puts the score first
score_first_key(match) == <<match.similarity_score, Cardinality(match.matching_skills),
                            match.total_job_skills, 0 - match.total_user_skills>>

\* sort_key of match_user_to_jobs and of get_job_matches
sort_key(match) == <<Cardinality(match.matching_skills), match.similarity_score,
                     match.total_job_skills, 0 - match.total_user_skills>>

\* tuple comparison a < b
KeyLess(a, b) ==
    \E i \in 1..Len(a) : a[i] < b[i] /\ \A j \in 1..(i - 1) : a[j] = b[j]

\* list.sort(key=..., reverse=True) on a list of [k |-> key, m |-> item]:
\* stable, descending by key
RECURSIVE InsertDesc(_, _)
InsertDesc(sorted, km) ==
    IF sorted = <<>> THEN <<km>>
    ELSE IF KeyLess(Head(sorted).k, km.k)
         THEN <<km>> \o sorted
         ELSE <<Head(sorted)>> \o InsertDesc(Tail(sorted), km)

RECURSIVE SortDesc(_, _)
SortDesc(kms, acc) ==
    IF kms = <<>> THEN acc
    ELSE SortDesc(Tail(kms), InsertDesc(acc, Head(kms)))

Items(kms) == [i \in 1..Len(kms) |-> kms[i].m]

\* matches.sort(key=sort_key, reverse=True)
SortBySortKey(matches) ==
    Items(SortDesc([i \in 1..Len(matches) |->
                       [k |-> sort_key(matches[i]), m |-> matches[i]]], <<>>))

Take(seq, n) == SubSeq(seq, 1, Min(n, Len(seq)))

\* a candidate loop whose floor is one matching skill
RECURSIVE CandidatesFloorOne(_, _)
CandidatesFloorOne(user_skills, jobs_with_skills) ==
    IF jobs_with_skills = <<>> THEN <<>>
    ELSE LET job_data == Head(jobs_with_skills)
             similarity_scores == calculate_similarity(user_skills, job_data.skills)
             gap_analysis == analyze_skill_gaps(user_skills, job_data.skills)
             match == [job_id |-> job_data.id,
                       similarity_score |-> similarity_scores.overall,
                       jaccard_score |-> similarity_scores.jaccard,
                       cosine_score |-> similarity_scores.cosine,
                       weighted_score |-> similarity_scores.weighted,
                       skill_coverage |-> gap_analysis.coverage,
                       matching_skills |-> gap_analysis.matching_skills,
                       missing_skills |-> gap_analysis.missing_skills,
                       total_job_skills |-> Cardinality(DOMAIN job_data.skills),
                       total_user_skills |-> Cardinality(DOMAIN user_skills)]
             rest == CandidatesFloorOne(user_skills, Tail(jobs_with_skills))
         IN IF Cardinality(gap_analysis.matching_skills) < 1
            THEN rest
            ELSE <<match>> \o rest

\* the candidate loop of match_user_to_jobs (lines 55-88)
RECURSIVE Candidates(_, _)
Candidates(user_skills, jobs_with_skills) ==
    IF jobs_with_skills = <<>> THEN <<>>
    ELSE LET job_data == Head(jobs_with_skills)
             similarity_scores == calculate_similarity(user_skills, job_data.skills)
             gap_analysis == analyze_skill_gaps(user_skills, job_data.skills)
             match == [job_id |-> job_data.id,
                       similarity_score |-> similarity_scores.overall,
                       jaccard_score |-> similarity_scores.jaccard,
                       cosine_score |-> similarity_scores.cosine,
                       weighted_score |-> similarity_scores.weighted,
                       skill_coverage |-> gap_analysis.coverage,
                       matching_skills |-> gap_analysis.matching_skills,
                       missing_skills |-> gap_analysis.missing_skills,
                       total_job_skills |-> Cardinality(DOMAIN job_data.skills),
                       total_user_skills |-> Cardinality(DOMAIN user_skills)]
             rest == Candidates(user_skills, Tail(jobs_with_skills))
         IN IF Cardinality(gap_analysis.matching_skills) < MinMatchingSkills
            THEN rest
            ELSE <<match>> \o rest

\* match_user_to_jobs: rows are the user's user_skills_emsi rows; raises is
\* TRUE when a store read inside the try block throws
match_user_to_jobs(rows, jobTable, order, limit, raises) ==
    LET user_skills == get_user_skills(rows)
        jobs_with_skills == get_jobs_with_skills(jobTable, order)
    IN IF raises THEN <<>>
       ELSE IF DOMAIN user_skills = {} THEN <<>>
       ELSE IF jobs_with_skills = <<>> THEN <<>>
       ELSE Take(SortBySortKey(Candidates(user_skills, jobs_with_skills)), limit)

\* the emsi_skill_id column of a skill row: an opaque identifier, one per
\* skill name and equal to no skill name
emsi_skill_id(name) == "KS_" \o name

\* the rows of emsi_skills (skill_id, skill_type): job_skills_emsi rows are
\* written from the extractor's ids, so a job skill can have no row here (the
\* lookup's `if skill_result`); in this table "tableau" has none
EmsiSkillRows ==
    {[skill_id |-> emsi_skill_id(name),
      skill_type |-> IF is_technical_skill(name) THEN "technical" ELSE "soft"]
        : name \in Labels \ {"tableau"}}

\* the skill ids that have a row in emsi_skills
EmsiSkills == {row.skill_id : row \in EmsiSkillRows}

\* skill_result.skill_type
skill_type_of(skill_id) == (CHOOSE row \in EmsiSkillRows : row.skill_id = skill_id).skill_type

\* {skill.emsi_skill_id: skill.importance or 1.0 for skill in job_skills}
RECURSIVE JobSkillDict(_, _)
JobSkillDict(job_rows, acc) ==
    IF job_rows = <<>> THEN acc
    ELSE JobSkillDict(Tail(job_rows),
             DictPut(acc, emsi_skill_id(Head(job_rows).name),
                     IF Head(job_rows).weight = 0 THEN DefaultImportance
                     ELSE Head(job_rows).weight))

\* 0.7 in twentieths
MediumImportance == 14

\* lines 273-282: the priority of a missing skill from its importance
gap_priority(importance) ==
    IF importance >= W THEN "high"
    ELSE IF importance >= MediumImportance THEN "medium"
    ELSE "low"

\* calculate_skill_gaps_dynamic: user_rows are the user's user_skills_emsi
\* rows, job_rows the job's job_skills_emsi rows; raises is TRUE when a
\* store read inside the try block throws
calculate_skill_gaps_dynamic(user_rows, job_rows, raises) ==
    LET user_skill_dict == get_user_skills(user_rows)
        user_skill_ids == DOMAIN user_skill_dict
        job_skill_dict == JobSkillDict(job_rows, EmptyDict)
        job_skill_ids == DOMAIN job_skill_dict
        similarity_scores == calculate_similarity(user_skill_dict, job_skill_dict)
        gap_analysis == analyze_skill_gaps(user_skill_dict, job_skill_dict)
        missing_skill_ids == job_skill_ids \ user_skill_ids
        gaps == {[skill_id |-> skill_id, gap_type |-> "missing",
                  importance |-> job_skill_dict[skill_id],
                  priority |-> gap_priority(job_skill_dict[skill_id])]
                    : skill_id \in missing_skill_ids \cap EmsiSkills}
        gaps_by_category ==
            [category \in {skill_type_of(g.skill_id) : g \in gaps} |->
                {g \in gaps : skill_type_of(g.skill_id) = category}]
    IN IF raises THEN [error |-> TRUE]
       ELSE [error |-> FALSE,
             similarity_score |-> similarity_scores.overall,
             skill_coverage |-> gap_analysis.coverage,
             gaps |-> gaps,
             gaps_by_category |-> gaps_by_category,
             total_gaps |-> Cardinality(missing_skill_ids),
             high_priority_gaps |-> Cardinality({g \in gaps : g.priority = "high"}),
             medium_priority_gaps |-> Cardinality({g \in gaps : g.priority = "medium"}),
             low_priority_gaps |-> Cardinality({g \in gaps : g.priority = "low"})]

\* ---------------------------------------------- services/tfidf_matching.py
\* Skill names of skills_v2 in the model are single lower-case tokens that
\* occur in no entry of skill_mappings, so _get_skill_variations(name) is
\* [name] and a document is a sequence of skill ids standing for the names.
get_skill_variations(skill_id) == <<skill_id>>

Repeat(x, n) == [i \in 1..n |-> x]

\* the skill_names list built by _create_job_skill_documents for one job:
\* repetitions = max(1, int(importance * 5))
RECURSIVE job_skill_text(_)
job_skill_text(job_skills) ==
    IF job_skills = <<>> THEN <<>>
    ELSE LET skill_rel == Head(job_skills)
             importance == IF skill_rel.importance = 0 THEN DefaultImportance
                           ELSE skill_rel.importance
             repetitions == Max(1, (importance * 5) \div W)
         IN Repeat(get_skill_variations(skill_rel.skill_id)[1], repetitions)
            \o job_skill_text(Tail(job_skills))

\* _create_job_skill_documents: active jobs that have job_skills_v2 rows
RECURSIVE create_job_skill_documents(_, _)
create_job_skill_documents(jobTable, order) ==
    IF order = <<>> THEN <<>>
    ELSE LET job == jobTable[Head(order)]
             rest == create_job_skill_documents(jobTable, Tail(order))
         IN IF job.active /\ job.skills_v2 # <<>>
            THEN <<[id |-> Head(order), skill_text |-> job_skill_text(job.skills_v2)]>> \o rest
            ELSE rest

\* the user document of _create_user_vector:
\* repetitions = max(1, int(proficiency_level * confidence * 5))
RECURSIVE user_skill_text(_)
user_skill_text(user_skills) ==
    IF user_skills = <<>> THEN <<>>
    ELSE LET user_skill == Head(user_skills)
             repetitions == Max(1, (user_skill.proficiency_level * user_skill.confidence * 5)
                                     \div (W * W))
         IN Repeat(get_skill_variations(user_skill.skill_id)[1], repetitions)
            \o user_skill_text(Tail(user_skills))

\* TfidfVectorizer(ngram_range=(1, 2)): the terms of a token sequence
Ngrams(doc) == {<<doc[i]>> : i \in 1..Len(doc)}
               \cup {<<doc[i], doc[i + 1]>> : i \in 1..(Len(doc) - 1)}

TermCount(term, doc) ==
    Cardinality({i \in 1..(Len(doc) - Len(term) + 1) : SubSeq(doc, i, i + Len(term) - 1) = term})

DocFreq(term, docs) == Cardinality({i \in 1..Len(docs) : term \in Ngrams(docs[i].skill_text)})

\* vocabulary after the min_df=1 / max_df=0.95 pruning
Vocabulary(docs) ==
    {t \in UNION {Ngrams(docs[i].skill_text) : i \in 1..Len(docs)} :
        DocFreq(t, docs) * 100 <= 95 * Len(docs)}

\* fit_transform raises ValueError when max_df * n_docs < min_df or when no
\* term is left after pruning
FitRaises(docs) == 95 * Len(docs) < 100 \/ Vocabulary(docs) = {}

\* (ln((1 + n) / (1 + df)) + 1) ^ 2 in hundredths (smooth idf, squared)
Idf2Table == <<
    <<100>>,
    <<198, 100>>,
    <<287, 166, 100>>,
    <<367, 228, 150, 100>>,
    <<440, 287, 198, 140, 100>>,
    <<507, 341, 243, 179, 133, 100>> >>
Idf2(n, df) == Idf2Table[n][df]

\* cosine_similarity of the tf-idf vectors of two token sequences over the
\* fitted vocabulary, in thousandths
TfidfCosine(udoc, jdoc, docs) ==
    LET V == Vocabulary(docs)
        n == Len(docs)
        idf2 == [t \in V |-> Idf2(n, DocFreq(t, docs))]
        dot == SumOver(V, [t \in V |-> TermCount(t, udoc) * TermCount(t, jdoc) * idf2[t]])
        nu == SumOver(V, [t \in V |-> TermCount(t, udoc) * TermCount(t, udoc) * idf2[t]])
        nj == SumOver(V, [t \in V |-> TermCount(t, jdoc) * TermCount(t, jdoc) * idf2[t]])
        A == ISqrt(100 * nu)
        B == ISqrt(100 * nj)
    IN IF nu = 0 \/ nj = 0 THEN 0
       ELSE Min(S, (((dot * S) \div A) * 100) \div B)

\* dict built from rows: a later row of the same skill replaces the earlier
RECURSIVE DictOfRows(_, _, _)
DictOfRows(rows, field, acc) ==
    IF rows = <<>> THEN acc
    ELSE DictOfRows(Tail(rows), field, DictPut(acc, Head(rows).skill_id, Head(rows)[field]))

\* _compute_job_gap_analysis
compute_job_gap_analysis(user_rows, job_rows) ==
    LET user_skills == DictOfRows(user_rows, "proficiency_level", EmptyDict)
        raw_job == DictOfRows(job_rows, "importance", EmptyDict)
        job_skills == [k \in DOMAIN raw_job |->
                          IF raw_job[k] = 0 THEN DefaultImportance ELSE raw_job[k]]
        user_skill_ids == DOMAIN user_skills
        job_skill_ids == DOMAIN job_skills
        matching_skills == user_skill_ids \cap job_skill_ids
        missing_skills == job_skill_ids \ user_skill_ids
        union == user_skill_ids \cup job_skill_ids
        weighted_score == SumOver(matching_skills,
                              [k \in matching_skills |-> user_skills[k] * job_skills[k]])
        total_weight == SumOver(job_skill_ids, [k \in job_skill_ids |-> job_skills[k]])
    IN [coverage |-> IF job_skill_ids # {}
                     THEN (Cardinality(matching_skills) * S) \div Cardinality(job_skill_ids)
                     ELSE 0,
        jaccard_score |-> IF union # {}
                          THEN (Cardinality(matching_skills) * S) \div Cardinality(union)
                          ELSE 0,
        weighted_score |-> IF total_weight > 0
                           THEN (S * weighted_score) \div (W * total_weight) ELSE 0,
        matching_skills |-> matching_skills,
        missing_skills |-> missing_skills,
        total_required |-> Cardinality(job_skill_ids),
        total_user_skills |-> Cardinality(user_skill_ids)]

SimilarityFloor == 10

\* the match loop of compute_matches (lines 275-303)
RECURSIVE TfidfCandidates(_, _, _, _, _)
TfidfCandidates(user_rows, udoc, jobTable, docs, i) ==
    IF i > Len(docs) THEN <<>>
    ELSE LET job_doc == docs[i]
             similarity == TfidfCosine(udoc, job_doc.skill_text, docs)
             gap_analysis == compute_job_gap_analysis(user_rows, jobTable[job_doc.id].skills_v2)
             match == [job_id |-> job_doc.id,
                       similarity_score |-> similarity,
                       jaccard_score |-> gap_analysis.jaccard_score,
                       cosine_score |-> similarity,
                       weighted_score |-> gap_analysis.weighted_score,
                       skill_coverage |-> gap_analysis.coverage,
                       matching_skills |-> gap_analysis.matching_skills,
                       missing_skills |-> gap_analysis.missing_skills,
                       total_job_skills |-> gap_analysis.total_required,
                       total_user_skills |-> gap_analysis.total_user_skills]
             rest == TfidfCandidates(user_rows, udoc, jobTable, docs, i + 1)
         IN IF similarity > SimilarityFloor THEN <<match>> \o rest ELSE rest

\* matches.sort(key=lambda x: x['similarity_score'], reverse=True)
SortBySimilarity(matches) ==
    Items(SortDesc([i \in 1..Len(matches) |->
                       [k |-> <<matches[i].similarity_score>>, m |-> matches[i]]], <<>>))

\* compute_matches: user_rows are the user's user_skills rows; raises is TRUE
\* when a store read inside the try block throws
compute_matches(user_rows, jobTable, order, limit, raises) ==
    LET job_documents == create_job_skill_documents(jobTable, order)
        udoc == user_skill_text(user_rows)
    IN IF raises THEN <<>>
       ELSE IF job_documents = <<>> THEN <<>>
       ELSE IF FitRaises(job_documents) THEN <<>>
       ELSE IF user_rows = <<>> \/ udoc = <<>> THEN <<>>
       ELSE Take(SortBySimilarity(TfidfCandidates(user_rows, udoc, jobTable, job_documents, 1)),
                 limit)

\* ------------------------------------------------------------- the stores
VARIABLES
    user_skills_emsi,   \* user id -> rows of user_skills_emsi [name, weight]
    user_skills,        \* user id -> rows of user_skills [skill_id, proficiency_level, confidence]
    job_postings,       \* job id -> [active, skills (job_skills_emsi rows), skills_v2 (job_skills_v2 rows)]
    job_order,          \* the order in which the job queries return the postings
    db,                 \* committed tables [matches (job_matches), gaps (skill_gaps)]
    tx,                 \* the tables as the session sees them (committed + pending)
    next_id,            \* AUTO_INCREMENT of job_matches.id
    today,              \* the clock of the match store, in days
    pc, mode, alg, limit, queue, computed, stats, runs,
    pre, truth, last_save, prev_result, cur_result,
    fit_calls,          \* calls of TfidfVectorizer.fit_transform since the run began
    fetched,            \* the list last returned by get_job_matches
    now,                \* the clock of the alignment store, in half hours
    alignments,         \* committed rows of user_industry_alignment
    snapshots,          \* committed rows of skill_alignment_snapshots, oldest first
    skill_history,      \* committed rows of user_skill_history, oldest first
    al_next_id,         \* AUTO_INCREMENT of user_industry_alignment.id
    al_last,            \* the last alignment operation and what it returned
    al_ops,             \* the number of alignment operations so far
    calc_user,          \* a user skill dictionary {skill id: proficiency}
    calc_job,           \* a job skill dictionary {skill id: importance}
    calc_result,        \* the last value computed from the two dictionaries
    sessions            \* the transactions of two requests that save at the same time

storeVars == <<user_skills_emsi, user_skills, job_postings, job_order>>
runVars == <<pc, mode, alg, limit, queue, computed, stats>>
histVars == <<pre, truth, last_save, prev_result, cur_result>>
rankVars == <<fetched>>
alignVars == <<now, alignments, snapshots, skill_history, al_next_id, al_last, al_ops>>
calcVars == <<calc_user, calc_job, calc_result>>
concVars == <<sessions>>
auxVars == <<rankVars, alignVars, calcVars, concVars>>
vars == <<storeVars, db, tx, next_id, today, runVars, runs, histVars, fit_calls, auxVars>>
schedVarsNoCalc == <<db, tx, next_id, today, runVars, runs, histVars, fit_calls, rankVars, concVars>>
schedVars == <<schedVarsNoCalc, calcVars>>

NULL == 0 - 1
None == [none |-> TRUE]

\* a job_skills_emsi row (weight is importance) and a user_skills_emsi row
\* (weight is proficiency_level); emsi_skill_id is one-to-one with the name
R(name, weight) == [name |-> name, weight |-> weight]
UE(name, weight, confidence) == [name |-> name, weight |-> weight, confidence |-> confidence]
U2(skill_id, proficiency_level, confidence) ==
    [skill_id |-> skill_id, proficiency_level |-> proficiency_level, confidence |-> confidence]
J2(skill_id, importance) == [skill_id |-> skill_id, importance |-> importance]

\* the fixed content of the skill and job tables under Spec
UserEmsiData == <<
    <<UE("python", 15, 16), UE("sql", 10, 16), UE("javascript", 20, 16), UE("excel", 10, 16)>>,
    <<UE("mysql", 10, 16), UE("postgresql", 20, 16), UE("aws", 10, 16), UE("tableau", 10, 16)>>,
    <<UE("communication", 20, 16), UE("js", 20, 16)>> >>
UserV2Data == <<
    <<U2(1, 10, 16), U2(2, 20, 16), U2(3, 10, 20)>>,
    <<U2(2, 10, 16)>>,
    <<U2(4, 10, 8)>> >>
JobData == <<
    [active |-> TRUE, category |-> "tech",
     skills |-> <<R("python", 20), R("mysql", 20), R("aws", 20)>>,
     skills_v2 |-> <<J2(1, 8), J2(2, 8)>>],
    [active |-> TRUE, category |-> "tech",
     skills |-> <<R("javascript", 20), R("postgresql", 10), R("excel", 20),
                  R("communication", 20)>>,
     skills_v2 |-> <<J2(2, 4), J2(3, 8)>>],
    [active |-> TRUE, category |-> "data",
     skills |-> <<R("tableau", 20), R("excel", 0)>>,
     skills_v2 |-> <<J2(3, 8), J2(5, 4)>>] >>

Cycle(data, i) == data[((i - 1) % Len(data)) + 1]

Algorithms == {"tfidf", "basic"}

\* ------------------------------------------- the session and the two tables
EmptyTables == [matches |-> {}, gaps |-> {}]

MatchesOf(t, u) == {m \in t.matches : m.user_id = u}

\* a delete of job_matches rows that leaves their skill_gaps rows behind
DeleteRowsNoCascade(t, gone) == [matches |-> t.matches \ gone, gaps |-> t.gaps]

\* db.query(JobMatch).filter(JobMatch.user_id == user_id).delete(); the
\* skill_gaps rows go with their match (ForeignKey ondelete='CASCADE')
DeleteRows(t, gone) ==
    [matches |-> t.matches \ gone,
     gaps |-> {g \in t.gaps : g.match_id \notin {m.id : m \in gone}}]

\* a delete whose filter matches no row
KeepMatchesOfUser(t, u) == t

DeleteMatchesOfUser(t, u) == DeleteRows(t, MatchesOf(t, u))

\* _invalidate_old_matches; outcome says where the store raises, the
\* exception is swallowed by the method
invalidate_old_matches(t, u, outcome) ==
    LET stamped == [t EXCEPT !.matches =
                        {IF m.user_id = u THEN [m EXCEPT !.computed_at = today] ELSE m
                            : m \in t.matches}]
    IN CASE outcome = "raise_update" -> t
         [] outcome = "raise_delete" -> stamped
         [] OTHER -> DeleteMatchesOfUser(stamped, u)

\* the JobMatch(...) row of save_job_matches / save_matches: calculated_at
\* gets the server default now(), computed_at is not given and stays NULL
JobMatch(id, user_id, match_data, algorithm_version) ==
    [id |-> id, user_id |-> user_id, job_id |-> match_data.job_id,
     similarity_score |-> match_data.similarity_score,
     jaccard_score |-> match_data.jaccard_score,
     cosine_score |-> match_data.cosine_score,
     weighted_score |-> match_data.weighted_score,
     missing_skills |-> match_data.missing_skills,
     matching_skills |-> match_data.matching_skills,
     skill_coverage |-> match_data.skill_coverage,
     algorithm_version |-> algorithm_version,
     calculated_at |-> today,
     computed_at |-> NULL]

\* TFIDFJobMatcher._create_skill_gaps: the SkillGap rows added for one match.
\* fail_at = 0: no store read raises; fail_at = g: the read for the g-th
\* missing skill raises, the except clause of the method swallows it and the
\* loop ends there
create_skill_gaps(match_id, match_data, fail_at) ==
    LET missing_skills == SetToSeq(match_data.missing_skills)
        last == IF fail_at = 0 THEN Len(missing_skills) ELSE fail_at - 1
    IN {[match_id |-> match_id, skill_id |-> missing_skills[g], gap_type |-> "missing",
         importance |-> W, priority |-> "high"] : g \in 1..last}

AlgorithmVersion(a) == IF a = "tfidf" THEN "tfidf_v1" ELSE "v1"

\* a save whose delete leaves the rows that the same algorithm stored
\* for the user before
SaveRowsNoDelete(t, u, matches, a, first_id, gap_fail) ==
    LET t1 == DeleteRows(t, {m \in MatchesOf(t, u) : m.algorithm_version # AlgorithmVersion(a)})
        rows == {JobMatch(first_id + k - 1, u, matches[k], AlgorithmVersion(a))
                    : k \in 1..Len(matches)}
        gaps == IF a = "tfidf"
                THEN UNION {create_skill_gaps(first_id + k - 1, matches[k],
                                IF gap_fail[1] = k THEN gap_fail[2] ELSE 0)
                               : k \in 1..Len(matches)}
                ELSE {}
    IN [matches |-> t1.matches \cup rows, gaps |-> t1.gaps \cup gaps]

\* the try block of save_job_matches / save_matches up to the commit: the
\* session's tables after the delete, the inserts and the gap records.
\* gap_fail = <<k, g>>: creating the g-th gap of the k-th match raises
SaveRows(t, u, matches, a, first_id, gap_fail) ==
    LET t1 == DeleteMatchesOfUser(t, u)
        rows == {JobMatch(first_id + k - 1, u, matches[k], AlgorithmVersion(a))
                    : k \in 1..Len(matches)}
        gaps == IF a = "tfidf"
                THEN UNION {create_skill_gaps(first_id + k - 1, matches[k],
                                IF gap_fail[1] = k THEN gap_fail[2] ELSE 0)
                               : k \in 1..Len(matches)}
                ELSE {}
    IN [matches |-> t1.matches \cup rows, gaps |-> t1.gaps \cup gaps]

\* the points of a save at which the store can raise: 0 none, k in
\* 1..Len(matches) the flush of the k-th insert, Len(matches) + 1 the commit
SaveFailPoints(matches) == 0..(Len(matches) + 1)

GapFailPoints(matches, a) ==
    {<<0, 0>>} \cup
    (IF a = "tfidf"
     THEN {<<k, g>> : k \in 1..Len(matches), g \in 1..2}
            \cap {kg \in (1..Len(matches)) \X (1..2) :
                    kg[2] <= Cardinality(matches[kg[1]].missing_skills)}
     ELSE {})

\* ids drawn from the AUTO_INCREMENT counter by a save
IdsUsed(matches, fail_at) ==
    IF fail_at = 0 \/ fail_at = Len(matches) + 1 THEN Len(matches) ELSE fail_at - 1

\* what is compared between two results: a stored row without its id and
\* its timestamp
Proj(m) == [job_id |-> m.job_id, similarity_score |-> m.similarity_score,
            jaccard_score |-> m.jaccard_score, cosine_score |-> m.cosine_score,
            weighted_score |-> m.weighted_score, skill_coverage |-> m.skill_coverage,
            matching_skills |-> m.matching_skills, missing_skills |-> m.missing_skills]
ProjUser(t, u) == {Proj(m) : m \in MatchesOf(t, u)}
ProjList(matches) == {Proj(matches[k]) : k \in 1..Len(matches)}

ComputeFor(a, u, lim, raises) ==
    IF a = "tfidf"
    THEN compute_matches(user_skills[u], job_postings, job_order, lim, raises)
    ELSE match_user_to_jobs(user_skills_emsi[u], job_postings, job_order, lim, raises)

\* -------------------------------------------- services/match_scheduler.py
NoStats == [total_users |-> 0, processed_users |-> 0, failed_users |-> 0, total_matches |-> 0]

\* nothing fetched, no alignment calculated yet
AuxInit ==
    /\ fit_calls = 0
    /\ fetched = <<>>
    /\ now = 0
    /\ alignments = {}
    /\ snapshots = <<>>
    /\ skill_history = <<>>
    /\ al_next_id = 1
    /\ al_last = None
    /\ al_ops = 0
    /\ sessions = None

\* no dictionary under calculation
NoCalc ==
    /\ calc_user = EmptyDict
    /\ calc_job = EmptyDict
    /\ calc_result = None

\* the match store and the scheduler before any run
SchedInit ==
    /\ user_skills_emsi = [u \in Users |-> Cycle(UserEmsiData, u)]
    /\ user_skills = [u \in Users |-> Cycle(UserV2Data, u)]
    /\ job_postings = [j \in Jobs |-> Cycle(JobData, j)]
    /\ job_order = [i \in 1..NJobs |-> NJobs + 1 - i]
    /\ db = EmptyTables
    /\ tx = EmptyTables
    /\ next_id = 1
    /\ today = 0
    /\ pc = "idle" /\ mode = "none" /\ alg = "basic" /\ limit = DefaultLimit
    /\ queue = <<>> /\ computed = <<>> /\ stats = NoStats
    /\ runs = 0
    /\ pre = [u \in Users |-> {}]
    /\ truth = [u \in Users |-> "pending"]
    /\ last_save = None
    /\ prev_result = [u \in Users |-> None]
    /\ cur_result = [u \in Users |-> None]

Init ==
    /\ SchedInit
    /\ AuxInit
    /\ NoCalc

\* a write to user u's matches that is no successful recompute ends the
\* run of consecutive recomputes of u
Forget(u) == /\ prev_result' = [prev_result EXCEPT ![u] = None]
             /\ cur_result' = [cur_result EXCEPT ![u] = None]

BeginRun == /\ pc = "idle"
            /\ runs < MaxRuns
            /\ runs' = runs + 1
            /\ pre' = [u \in Users |-> ProjUser(db, u)]
            /\ truth' = [u \in Users |-> "pending"]
            /\ last_save' = None
            /\ computed' = <<>>
            /\ fit_calls' = 0

\* recompute_all_matches, lines 29-51: the users that have user_skills rows
StartBatch(a, lim) ==
    /\ BeginRun
    /\ pc' = "loop" /\ mode' = "batch" /\ alg' = a /\ limit' = lim
    /\ queue' = SetToSeq({u \in Users : user_skills[u] # <<>>})
    /\ stats' = [NoStats EXCEPT !.total_users = Cardinality({u \in Users : user_skills[u] # <<>>})]
    /\ UNCHANGED <<auxVars, storeVars, db, tx, next_id, today, prev_result, cur_result>>

\* recompute_user_matches, lines 119-120
StartSingle(u, a) ==
    /\ BeginRun
    /\ pc' = "loop" /\ mode' = "single" /\ alg' = a /\ limit' = DefaultLimit
    /\ queue' = <<u>>
    /\ stats' = NoStats
    /\ UNCHANGED <<auxVars, storeVars, db, tx, next_id, today, prev_result, cur_result>>

\* an invalidation that commits its delete
InvalidateCommits(outcome) ==
    /\ pc = "loop" /\ queue # <<>>
    /\ tx' = invalidate_old_matches(tx, Head(queue), outcome)
    /\ db' = tx'
    /\ pc' = "invalidated"
    /\ last_save' = None
    /\ UNCHANGED <<fit_calls, auxVars, storeVars, next_id, today, mode, alg, limit, queue, computed, stats,
                   runs, pre, truth, prev_result, cur_result>>

\* self._invalidate_old_matches(user_id), lines 57 and 123
Invalidate(outcome) ==
    /\ pc = "loop" /\ queue # <<>>
    /\ tx' = invalidate_old_matches(tx, Head(queue), outcome)
    /\ pc' = "invalidated"
    /\ last_save' = None
    /\ UNCHANGED <<fit_calls, auxVars, storeVars, db, next_id, today, mode, alg, limit, queue, computed, stats,
                   runs, pre, truth, prev_result, cur_result>>

\* the end of a request or of run_nightly_match_update: the session is
\* closed, what it had not committed is rolled back
CloseSession == tx' = db

\* the except clause of the loop body (lines 74-77) or of
\* recompute_user_matches (lines 150-157)
UserRaised(u) ==
    /\ truth' = [truth EXCEPT ![u] = "failed"]
    /\ computed' = <<>>
    /\ queue' = Tail(queue)
    /\ IF mode = "batch"
       THEN /\ stats' = [stats EXCEPT !.failed_users = @ + 1]
            /\ pc' = "loop"
            /\ UNCHANGED tx
       ELSE /\ stats' = stats
            /\ pc' = "idle"
            /\ CloseSession

\* the calls of _build_tfidf_vectors that one computation makes: the basic
\* algorithm makes none; compute_matches makes one (tfidf_matching.py:264)
\* unless there is no job document or a store read has raised before it
FitCalls(a, raises) ==
    IF a # "tfidf" \/ create_job_skill_documents(job_postings, job_order) = <<>> THEN {0}
    ELSE IF raises THEN {0, 1}
    ELSE {1}

\* a computation that stores what it computed
ComputeMatchesPersists(ctor_raises, raises) ==
    LET u == Head(queue)
        matches == ComputeFor(alg, u, limit, raises)
        t1 == SaveRows(tx, u, matches, alg, next_id, <<0, 0>>)
    IN /\ pc = "invalidated"
       /\ last_save' = None
       /\ computed' = matches
       /\ pc' = IF mode = "endpoint" /\ matches = <<>> THEN "idle" ELSE "computed"
       /\ truth' = IF raises THEN [truth EXCEPT ![u] = "failed"] ELSE truth
       /\ tx' = t1 /\ db' = t1
       /\ next_id' = next_id + Len(matches)
       /\ \E built \in FitCalls(alg, raises) : fit_calls' = fit_calls + built
       /\ UNCHANGED <<auxVars, storeVars, today, mode, alg, limit, runs, pre,
                      prev_result, cur_result, queue, stats>>

\* lines 60-62 / 65-66 and 126-128 / 131-132: the matcher is built and the
\* matches are computed. ctor_raises: TFIDFJobMatcher.__init__ re-raises a
\* failure of _build_skill_vocabulary; raises: a store read inside
\* compute_matches / match_user_to_jobs throws and the method returns []
ComputeMatches(ctor_raises, raises) ==
    /\ pc = "invalidated"
    /\ last_save' = None
    /\ IF ctor_raises /\ alg = "tfidf"
       THEN UserRaised(Head(queue)) /\ UNCHANGED fit_calls
       ELSE /\ computed' = ComputeFor(alg, Head(queue), limit, raises)
            /\ \E built \in FitCalls(alg, raises) : fit_calls' = fit_calls + built
            /\ pc' = IF mode = "endpoint" /\ computed' = <<>> THEN "idle" ELSE "computed"
            /\ truth' = IF raises THEN [truth EXCEPT ![Head(queue)] = "failed"] ELSE truth
            /\ UNCHANGED <<tx, queue, stats>>
    /\ UNCHANGED <<auxVars, storeVars, db, next_id, today, mode, alg, limit, runs, pre,
                   prev_result, cur_result>>

\* a save that reports the length of the list it was given even when it
\* has rolled back
SavedCountsAttempts(u, matches, a, fail_at, gap_fail) ==
    LET ok == fail_at = 0
        t1 == SaveRows(tx, u, matches, a, next_id, gap_fail)
    IN [ok |-> ok,
        tables |-> IF ok THEN t1 ELSE db,
        saved_count |-> Len(matches),
        ids |-> IdsUsed(matches, fail_at)]

\* save_job_matches / save_matches as one transaction step: the new tables
\* of the session and of the store, the count returned and the ids used
Saved(u, matches, a, fail_at, gap_fail) ==
    LET ok == fail_at = 0
        t1 == SaveRows(tx, u, matches, a, next_id, gap_fail)
    IN [ok |-> ok,
        tables |-> IF ok THEN t1 ELSE db,
        saved_count |-> IF ok THEN Len(matches) ELSE 0,
        ids |-> IdsUsed(matches, fail_at)]

SaveRecord(u, matches, a, res, gap_fail) ==
    [user |-> u, ok |-> res.ok, passed |-> ProjList(matches), count |-> Len(matches),
     alg |-> a, first_id |-> next_id, gap_failed |-> gap_fail # <<0, 0>>,
     before |-> db]

\* lines 63 / 67 and 129 / 133, then the statistics (lines 69-70) or the
\* result (lines 135-148)
SaveMatches(fail_at, gap_fail) ==
    LET u == Head(queue)
        res == Saved(u, computed, alg, fail_at, gap_fail)
        clean == res.ok /\ gap_fail = <<0, 0>> /\ truth[u] = "pending"
    IN /\ pc = "computed"
       /\ db' = res.tables
       /\ next_id' = next_id + res.ids
       /\ last_save' = SaveRecord(u, computed, alg, res, gap_fail)
       /\ truth' = [truth EXCEPT ![u] = IF clean THEN "ok"
                                        ELSE IF truth[u] = "failed" \/ ~res.ok THEN "failed"
                                        ELSE "gaps"]
       /\ IF clean /\ mode \in {"batch", "single"}
          THEN /\ prev_result' = [prev_result EXCEPT ![u] = cur_result[u]]
               /\ cur_result' = [cur_result EXCEPT ![u] =
                                    [alg |-> alg, limit |-> limit, rows |-> ProjUser(res.tables, u),
                                     count |-> Cardinality(MatchesOf(res.tables, u)),
                                     jobs |-> {m.job_id : m \in MatchesOf(res.tables, u)}]]
          ELSE Forget(u)
       /\ queue' = Tail(queue)
       /\ computed' = <<>>
       /\ tx' = res.tables
       /\ IF mode = "batch"
          THEN /\ stats' = [stats EXCEPT !.total_matches = @ + res.saved_count,
                                         !.processed_users = @ + 1]
               /\ pc' = "loop"
          ELSE /\ stats' = stats
               /\ pc' = "idle"
       /\ UNCHANGED <<fit_calls, auxVars, storeVars, today, mode, alg, limit, runs, pre>>

\* the save of the computed list, with every point at which it can fail
SaveStep ==
    \E fail_at \in SaveFailPoints(computed), gap_fail \in GapFailPoints(computed, alg) :
        SaveMatches(fail_at, gap_fail)

\* lines 79-88: the loop is over and the statistics are returned
BatchEnd ==
    /\ pc = "loop" /\ mode = "batch" /\ queue = <<>>
    /\ pc' = "idle"
    /\ CloseSession
    /\ last_save' = None
    /\ UNCHANGED <<fit_calls, auxVars, storeVars, db, next_id, today, mode, alg, limit, queue, computed, stats,
                   runs, pre, truth, prev_result, cur_result>>

\* the run is cancelled between two users
BatchStop ==
    /\ pc = "loop" /\ mode = "batch" /\ queue # <<>>
    /\ pc' = "idle" /\ mode' = "stopped"
    /\ CloseSession
    /\ last_save' = None
    /\ UNCHANGED <<fit_calls, auxVars, storeVars, db, next_id, today, alg, limit, queue, computed, stats,
                   runs, pre, truth, prev_result, cur_result>>

\* routers/resume.py, lines 403-409: after a resume upload the matches of
\* the basic algorithm are computed and saved, with no invalidation before
StartUpload(u) ==
    /\ BeginRun
    /\ pc' = "invalidated" /\ mode' = "upload" /\ alg' = "basic" /\ limit' = UploadLimit
    /\ queue' = <<u>>
    /\ stats' = NoStats
    /\ UNCHANGED <<auxVars, storeVars, db, tx, next_id, today, prev_result, cur_result>>

\* routers/matching.py, lines 116-139: compute_job_matches with save_results
StartEndpoint(u, a, lim) ==
    /\ BeginRun
    /\ pc' = "invalidated" /\ mode' = "endpoint" /\ alg' = a /\ limit' = lim
    /\ queue' = <<u>>
    /\ stats' = NoStats
    /\ UNCHANGED <<auxVars, storeVars, db, tx, next_id, today, prev_result, cur_result>>

\* the record of a call of cleanup_old_matches: its argument, the day of the
\* call, whether the store raised, the count returned and the rows removed
CleanupRecord(days_old, raises, old) ==
    [days_old |-> days_old, at |-> today, raised |-> raises,
     deleted_count |-> IF raises THEN 0 ELSE Cardinality(old),
     deleted |-> IF raises THEN {} ELSE old]

\* cleanup_old_matches
Cleanup(days_old, raises) ==
    LET cutoff_date == today - days_old
        old == {m \in tx.matches : m.computed_at # NULL /\ m.computed_at < cutoff_date}
        t1 == DeleteRows(tx, old)
    IN /\ pc = "idle" /\ runs < MaxRuns
       /\ runs' = runs + 1
       /\ db' = IF raises THEN db ELSE t1
       /\ tx' = IF raises THEN db ELSE t1
       /\ stats' = CleanupRecord(days_old, raises, old)
       /\ mode' = "cleanup"
       /\ last_save' = None
       /\ prev_result' = [u \in Users |-> IF MatchesOf(tx, u) \cap old # {} THEN None
                                          ELSE prev_result[u]]
       /\ cur_result' = [u \in Users |-> IF MatchesOf(tx, u) \cap old # {} THEN None
                                         ELSE cur_result[u]]
       /\ UNCHANGED <<fit_calls, auxVars, storeVars, next_id, today, pc, alg, limit, queue, computed, pre, truth>>

Tick ==
    /\ pc = "idle" /\ today < MaxDay
    /\ today' = today + 1
    /\ last_save' = None
    /\ UNCHANGED <<fit_calls, auxVars, storeVars, db, tx, next_id, runVars, runs, pre, truth,
                   prev_result, cur_result>>

Next ==
    \/ \E a \in Algorithms, lim \in {1, DefaultLimit} : StartBatch(a, lim)
    \/ \E u \in Users, a \in Algorithms : StartSingle(u, a)
    \/ \E outcome \in {"ok", "raise_update", "raise_delete"} : Invalidate(outcome)
    \/ \E ctor_raises \in BOOLEAN, raises \in BOOLEAN : ComputeMatches(ctor_raises, raises)
    \/ SaveStep
    \/ BatchEnd
    \/ BatchStop
    \/ \E u \in Users : StartUpload(u)
    \/ \E u \in Users, a \in Algorithms, lim \in {1, DefaultLimit} : StartEndpoint(u, a, lim)
    \/ \E days_old \in {0, 7}, raises \in BOOLEAN : Cleanup(days_old, raises)
    \/ Tick

Spec == Init /\ [][Next]_vars


\* ------------------------------------------------------------ the ranker
\* all orders in which a query without ORDER BY can return the rows of X
RECURSIVE Perms(_)
Perms(X) == IF X = {} THEN {<<>>}
            ELSE UNION {{<<x>> \o p : p \in Perms(X \ {x})} : x \in X}

\* the result list of get_job_matches (lines 169-197): one entry per stored
\* row whose posting exists, in the order in which the rows are read
RECURSIVE match_entries(_, _, _)
match_entries(rows, jobTable, user_skill_count) ==
    IF rows = <<>> THEN <<>>
    ELSE LET match == Head(rows)
             rest == match_entries(Tail(rows), jobTable, user_skill_count)
         IN IF match.job_id \in DOMAIN jobTable
            THEN <<[match_id |-> match.id, job_id |-> match.job_id,
                    similarity_score |-> match.similarity_score,
                    matching_skills |-> match.matching_skills,
                    missing_skills |-> match.missing_skills,
                    total_job_skills |-> Cardinality(match.missing_skills)
                                           + Cardinality(match.matching_skills),
                    total_user_skills |-> user_skill_count]>> \o rest
            ELSE rest

\* get_job_matches
get_job_matches(rows, jobTable, user_skill_count, lim) ==
    Take(SortBySortKey(match_entries(rows, jobTable, user_skill_count)), lim)

\* routers/matching.py get_user_job_matches: the saved matches of user u
GetJobMatches(u, lim) ==
    /\ pc = "idle"
    /\ \E rows \in Perms(MatchesOf(tx, u)) :
          fetched' = get_job_matches(rows, job_postings, Len(user_skills_emsi[u]), lim)
    /\ UNCHANGED <<fit_calls, alignVars, calcVars, concVars, storeVars, db, tx, next_id, today,
                   runVars, runs, histVars>>

\* routers/matching.py get_skill_gaps: the gap report of user u for job j
GetSkillGaps(u, j, raises) ==
    /\ pc = "idle"
    /\ calc_result' = [op |-> "skill_gaps", user |-> u, job |-> j,
                       value |-> calculate_skill_gaps_dynamic(user_skills_emsi[u],
                                     job_postings[j].skills, raises)]
    /\ UNCHANGED <<schedVarsNoCalc, storeVars, alignVars, calc_user, calc_job>>

\* skill rows and postings from which SpecRank draws the inputs of the ranker
RankUserRows == {
    <<UE("python", 15, 16), UE("sql", 10, 16), UE("javascript", 20, 16), UE("excel", 10, 16)>>,
    <<UE("python", 20, 16), UE("javascript", 20, 16)>>,
    <<UE("python", 10, 16), UE("mysql", 10, 16), UE("postgresql", 20, 16), UE("excel", 10, 16)>>,
    <<UE("communication", 20, 16), UE("js", 20, 16)>>,
    <<UE("excel", 20, 16), UE("tableau", 20, 16), UE("aws", 4, 16)>>,
    <<UE("python", 16, 16), UE("sql", 12, 16)>> }

Posting(active, skills) ==
    [active |-> active, category |-> "tech", skills |-> skills, skills_v2 |-> <<>>]

FiveSkills == <<R("python", 20), R("mysql", 20), R("excel", 20), R("aws", 20), R("tableau", 20)>>
TwoSkills == <<R("javascript", 20), R("excel", 20)>>

RankJobTables == {
    JobData,
    <<Posting(TRUE, FiveSkills), Posting(TRUE, TwoSkills),
      Posting(TRUE, <<R("python", 20), R("javascript", 10)>>)>>,
    <<Posting(TRUE, TwoSkills), Posting(TRUE, TwoSkills), Posting(FALSE, FiveSkills)>>,
    <<Posting(TRUE, <<R("python", 20), R("testing", 20)>>),
      Posting(TRUE, <<R("sql", 0), R("python", 10), R("postgresql", 20)>>),
      Posting(TRUE, FiveSkills)>>,
    <<Posting(TRUE, <<R("python", 20), R("sql", 20), R("aws", 20)>>),
      Posting(TRUE, <<R("python", 15), R("excel", 15), R("tableau", 10)>>),
      Posting(TRUE, TwoSkills)>> }

RankLimits == {1, 2, DefaultLimit}

RankInit ==
    /\ \E rows \in RankUserRows :
          user_skills_emsi = [u \in Users |-> IF u = 1 THEN rows ELSE Cycle(UserEmsiData, u)]
    /\ user_skills = [u \in Users |-> Cycle(UserV2Data, u)]
    /\ \E table \in RankJobTables : job_postings = [j \in Jobs |-> Cycle(table, j)]
    /\ job_order \in Perms(Jobs)
    /\ db = EmptyTables
    /\ tx = EmptyTables
    /\ next_id = 1
    /\ today = 0
    /\ pc = "idle" /\ mode = "none" /\ alg = "basic" /\ limit = DefaultLimit
    /\ queue = <<>> /\ computed = <<>> /\ stats = NoStats
    /\ runs = 0
    /\ pre = [u \in Users |-> {}]
    /\ truth = [u \in Users |-> "pending"]
    /\ last_save = None
    /\ prev_result = [u \in Users |-> None]
    /\ cur_result = [u \in Users |-> None]
    /\ AuxInit
    /\ NoCalc

RankNext ==
    \/ \E lim \in RankLimits : StartEndpoint(1, "basic", lim)
    \/ ComputeMatches(FALSE, FALSE)
    \/ SaveStep
    \/ \E lim \in RankLimits : GetJobMatches(1, lim)

SpecRank == RankInit /\ [][RankNext]_vars

\* job tables without an active posting with skills (a posting that is not
\* active, one without skill rows, one with a single valid skill), and two
\* tables that have some
EmptyJobTables == {
    <<Posting(FALSE, FiveSkills), Posting(TRUE, <<>>),
      Posting(TRUE, <<R("python", 20), R("communication", 20)>>)>>,
    <<Posting(FALSE, FiveSkills), Posting(FALSE, TwoSkills), Posting(FALSE, FiveSkills)>>,
    <<Posting(TRUE, FiveSkills), Posting(TRUE, TwoSkills), Posting(FALSE, FiveSkills)>>,
    JobData }

\* the inputs of the matcher with and without valid skills and postings
EmptyInit ==
    /\ \E rows \in RankUserRows :
          user_skills_emsi = [u \in Users |-> IF u = 1 THEN rows ELSE Cycle(UserEmsiData, u)]
    /\ user_skills = [u \in Users |-> Cycle(UserV2Data, u)]
    /\ \E table \in EmptyJobTables : job_postings = [j \in Jobs |-> Cycle(table, j)]
    /\ job_order = [i \in 1..NJobs |-> NJobs + 1 - i]
    /\ db = EmptyTables
    /\ tx = EmptyTables
    /\ next_id = 1
    /\ today = 0
    /\ pc = "idle" /\ mode = "none" /\ alg = "basic" /\ limit = DefaultLimit
    /\ queue = <<>> /\ computed = <<>> /\ stats = NoStats
    /\ runs = 0
    /\ pre = [u \in Users |-> {}]
    /\ truth = [u \in Users |-> "pending"]
    /\ last_save = None
    /\ prev_result = [u \in Users |-> None]
    /\ cur_result = [u \in Users |-> None]
    /\ AuxInit
    /\ NoCalc

\* the callers of match_user_to_jobs: the batch, the endpoint and the resume
\* upload, with the basic algorithm
EmptyNext ==
    \/ StartBatch("basic", DefaultLimit)
    \/ StartEndpoint(1, "basic", DefaultLimit)
    \/ StartUpload(1)
    \/ Invalidate("ok")
    \/ \E raises \in BOOLEAN : ComputeMatches(FALSE, raises)
    \/ SaveStep
    \/ BatchEnd

SpecEmpty == EmptyInit /\ [][EmptyNext]_vars

\* ---------------------------------- two requests saving at the same time
\* The store is PostgreSQL (core/config.py) at its default isolation level
\* READ COMMITTED: a statement sees the rows committed when it starts and
\* its own transaction's changes, a DELETE waits for the rows another
\* transaction in flight has deleted and skips the ones whose delete has
\* committed, and rows inserted are seen by others after the commit only.
\* job_matches has no unique constraint on (user_id, job_id).
ConcUser == 1
Requests == {"batch", "upload"}
Other(s) == IF s = "batch" THEN "upload" ELSE "batch"

\* the statements of the transaction of a request for one user: the batch
\* invalidates (match_scheduler.py:57) before it saves (line 67), the
\* upload saves only (resume.py:409)
Script(s) == IF s = "batch" THEN <<"invalidate", "delete", "insert">>
             ELSE <<"delete", "insert">>

Session(s, matches) ==
    [step |-> 1, in_statement |-> FALSE, snapshot |-> {}, deleted |-> {}, inserted |-> {},
     left |-> matches, list |-> matches, done |-> FALSE, saved_count |-> 0]

\* the rows of the user a statement of request s sees
Visible(s) == MatchesOf(db, ConcUser) \ sessions[s].deleted

\* rows that a transaction in flight has deleted are locked
Locked(s) == IF sessions[s].done THEN {} ELSE sessions[s].deleted

\* the DELETE of _invalidate_old_matches or of save_job_matches (line 128)
\* starts: it takes its snapshot
DeleteBegins(s) ==
    /\ ~sessions[s].done /\ ~sessions[s].in_statement
    /\ Script(s)[sessions[s].step] \in {"invalidate", "delete"}
    /\ sessions' = [sessions EXCEPT ![s].in_statement = TRUE, ![s].snapshot = Visible(s)]
    /\ UNCHANGED <<storeVars, db, tx, next_id, today, runVars, runs, histVars, fit_calls,
                   rankVars, alignVars, calcVars>>

\* the DELETE ends once no row of its snapshot is locked by the other
\* transaction: it deletes the rows of the snapshot that still exist
DeleteEnds(s) ==
    /\ ~sessions[s].done /\ sessions[s].in_statement
    /\ sessions[s].snapshot \cap Locked(Other(s)) = {}
    /\ sessions' = [sessions EXCEPT
           ![s].in_statement = FALSE,
           ![s].deleted = @ \cup (sessions[s].snapshot \cap db.matches),
           ![s].step = @ + 1]
    /\ UNCHANGED <<storeVars, db, tx, next_id, today, runVars, runs, histVars, fit_calls,
                   rankVars, alignVars, calcVars>>

\* self.db.add(job_match); self.db.flush() for the next match of the list
InsertMatch(s) ==
    /\ ~sessions[s].done /\ Script(s)[sessions[s].step] = "insert"
    /\ sessions[s].left # <<>>
    /\ sessions' = [sessions EXCEPT
           ![s].inserted = @ \cup {JobMatch(next_id, ConcUser, Head(sessions[s].left),
                                            AlgorithmVersion("basic"))},
           ![s].left = Tail(@),
           ![s].saved_count = @ + 1]
    /\ next_id' = next_id + 1
    /\ UNCHANGED <<storeVars, db, tx, today, runVars, runs, histVars, fit_calls,
                   rankVars, alignVars, calcVars>>

\* self.db.commit()
CommitSave(s) ==
    /\ ~sessions[s].done /\ Script(s)[sessions[s].step] = "insert"
    /\ sessions[s].left = <<>>
    /\ db' = [DeleteRows(db, sessions[s].deleted) EXCEPT
                 !.matches = @ \cup sessions[s].inserted]
    /\ tx' = db'
    /\ sessions' = [sessions EXCEPT ![s].done = TRUE]
    /\ UNCHANGED <<storeVars, next_id, today, runVars, runs, histVars, fit_calls,
                   rankVars, alignVars, calcVars>>

\* the rows a committed save of the list has left for the user
StoredRows(matches, first_id) ==
    {JobMatch(first_id + k - 1, ConcUser, matches[k], AlgorithmVersion("basic")) :
        k \in 1..Len(matches)}

\* the upload has committed the skills of the resume, the batch has read
\* the user's skills before or after that; the store is empty or holds the
\* rows of an earlier save
ConcInit ==
    /\ \E rows \in RankUserRows :
          user_skills_emsi = [u \in Users |-> IF u = ConcUser THEN rows
                                              ELSE Cycle(UserEmsiData, u)]
    /\ user_skills = [u \in Users |-> Cycle(UserV2Data, u)]
    /\ job_postings = [j \in Jobs |-> Cycle(JobData, j)]
    /\ job_order = [i \in 1..NJobs |-> NJobs + 1 - i]
    /\ today = 0
    /\ \E before \in BOOLEAN, earlier \in BOOLEAN :
          LET rows == user_skills_emsi[ConcUser]
              old_rows == IF before THEN SubSeq(rows, 1, Len(rows) - 1) ELSE rows
              old_list == match_user_to_jobs(old_rows, job_postings, job_order,
                                             DefaultLimit, FALSE)
              new_list == match_user_to_jobs(rows, job_postings, job_order,
                                             UploadLimit, FALSE)
              stored == IF earlier THEN StoredRows(old_list, 1) ELSE {}
          IN /\ sessions = [s \in Requests |->
                               Session(s, IF s = "batch" THEN old_list ELSE new_list)]
             /\ db = [matches |-> stored, gaps |-> {}]
             /\ tx = db
             /\ next_id = Cardinality(stored) + 1
    /\ pc = "idle" /\ mode = "none" /\ alg = "basic" /\ limit = DefaultLimit
    /\ queue = <<>> /\ computed = <<>> /\ stats = NoStats
    /\ runs = 0
    /\ pre = [u \in Users |-> {}]
    /\ truth = [u \in Users |-> "pending"]
    /\ last_save = None
    /\ prev_result = [u \in Users |-> None]
    /\ cur_result = [u \in Users |-> None]
    /\ fit_calls = 0
    /\ fetched = <<>>
    /\ now = 0
    /\ alignments = {}
    /\ snapshots = <<>>
    /\ skill_history = <<>>
    /\ al_next_id = 1
    /\ al_last = None
    /\ al_ops = 0
    /\ NoCalc

ConcNext ==
    \E s \in Requests : DeleteBegins(s) \/ DeleteEnds(s) \/ InsertMatch(s) \/ CommitSave(s)

SpecConc == ConcInit /\ [][ConcNext]_vars

\* the gap report requested for every posting over the same inputs
GapsNext == \E j \in Jobs, raises \in BOOLEAN : GetSkillGaps(1, j, raises)

SpecGaps == RankInit /\ [][GapsNext]_vars


\* ------------------------------------- services/skill_alignment_service.py
Hour == 2
MinIndustryJobs == 3
MinMatchedSkills == 3
AlignTechBoostNum == 12
TopAlignments == 5
NoCategory == ""

\* _get_current_user_skills: emsi_skill_id -> name, proficiency, confidence
RECURSIVE FoldCurrentSkills(_, _)
FoldCurrentSkills(rows, skills) ==
    IF rows = <<>> THEN skills
    ELSE FoldCurrentSkills(Tail(rows),
             DictPut(skills, Head(rows).name,
                     [name |-> Head(rows).name, proficiency |-> Head(rows).weight,
                      confidence |-> Head(rows).confidence]))

get_current_user_skills(rows) == FoldCurrentSkills(rows, EmptyDict)

\* the rows of the join of job_postings and job_skills_emsi for the active
\* postings of one category: <<job id, position of the skill row>>
IndustryRows(jobTable, industry) ==
    UNION {{<<j, i>> : i \in 1..Len(jobTable[j].skills)} :
              j \in {k \in DOMAIN jobTable : jobTable[k].active /\ jobTable[k].category = industry}}

\* one industry of _get_industry_requirements: the GROUP BY over the skill
\* with HAVING COUNT(*) >= 3 and AVG(importance)
IndustryGroups(jobTable, rows) ==
    LET name_of(ji) == jobTable[ji[1]].skills[ji[2]].name
        group == [name \in {name_of(ji) : ji \in rows} |-> {ji \in rows : name_of(ji) = name}]
        avg_importance == [name \in DOMAIN group |->
            SumOver(group[name], [ji \in group[name] |-> jobTable[ji[1]].skills[ji[2]].weight])
               \div Cardinality(group[name])]
    IN [name \in {n \in DOMAIN group : Cardinality(group[n]) >= MinIndustryJobs} |->
           [name |-> name,
            importance |-> IF avg_importance[name] = 0 THEN DefaultImportance
                           ELSE avg_importance[name]]]

\* _get_industry_requirements
get_industry_requirements(jobTable) ==
    LET industries == {jobTable[j].category : j \in DOMAIN jobTable} \ {NoCategory}
        groups == [industry \in industries |->
                      IndustryGroups(jobTable, IndustryRows(jobTable, industry))]
    IN [industry \in {i \in industries : DOMAIN groups[i] # {}} |-> groups[industry]]

\* the order in which calculate_current_alignment goes through the
\* industries: by the first posting of each
RECURSIVE IndustrySeq(_, _, _)
IndustrySeq(jobTable, requirements, j) ==
    IF j \notin DOMAIN jobTable THEN <<>>
    ELSE LET industry == jobTable[j].category
             first == industry \in DOMAIN requirements
                      /\ \A i \in 1..(j - 1) : jobTable[i].category # industry
         IN (IF first THEN <<industry>> ELSE <<>>) \o IndustrySeq(jobTable, requirements, j + 1)

\* _calculate_industry_alignment before the penalty: the weighted score of
\* the matched skills over the sum of the importances of the profile
raw_alignment(skills_of_user, industry_skills) ==
    LET matched == DOMAIN skills_of_user \cap DOMAIN industry_skills
        total_score10 ==
            SumOver(matched,
                [k \in matched |->
                    skills_of_user[k].proficiency * skills_of_user[k].confidence
                    * industry_skills[k].importance
                    * (IF is_technical_skill(industry_skills[k].name)
                       THEN AlignTechBoostNum ELSE 10)])
        max_possible_score ==
            SumOver(DOMAIN industry_skills,
                [k \in DOMAIN industry_skills |-> industry_skills[k].importance])
    IN IF max_possible_score > 0
       THEN (total_score10 * S) \div (W * W * 10 * max_possible_score)
       ELSE 0

\* an alignment that is not scaled down for few matched skills
no_penalty(alignment, matched_skills) == alignment

\* if matched_skills < 3: alignment *= (matched_skills / 3.0)
few_skills_penalty(alignment, matched_skills) ==
    IF matched_skills < MinMatchedSkills
    THEN (alignment * matched_skills) \div MinMatchedSkills
    ELSE alignment

\* _calculate_industry_alignment
calculate_industry_alignment(skills_of_user, industry_skills) ==
    LET matched == DOMAIN skills_of_user \cap DOMAIN industry_skills
    IN Min(S, few_skills_penalty(raw_alignment(skills_of_user, industry_skills),
                                 Cardinality(matched)))

\* a test that leaves out the row calculated exactly one hour ago
is_recent_strict(row, t) == row.calculated_at > t - Hour

\* UserIndustryAlignment.calculated_at >= utcnow() - timedelta(hours=1)
is_recent(row, t) == row.calculated_at >= t - Hour

\* _store_alignment at time t; id is the id a new row gets; raises: the
\* method's except clause swallows a failure and nothing is stored
store_alignment(rows, user_id, industry, alignment_score, skills_of_user, industry_skills, t, id, raises) ==
    LET matched_skill_ids == DOMAIN skills_of_user \cap DOMAIN industry_skills
        missing_skill_ids == DOMAIN industry_skills \ DOMAIN skills_of_user
        skill_coverage == IF DOMAIN industry_skills # {}
                          THEN (Cardinality(matched_skill_ids) * S)
                                  \div Cardinality(DOMAIN industry_skills)
                          ELSE 0
        recent == {r \in rows : /\ r.user_id = user_id
                                /\ r.industry_category = industry
                                /\ is_recent(r, t)}
        existing == CHOOSE r \in recent : TRUE
        metrics(r) == [r EXCEPT !.alignment_score = alignment_score,
                                !.matched_skills = Cardinality(matched_skill_ids),
                                !.total_industry_skills = Cardinality(DOMAIN industry_skills),
                                !.skill_coverage = skill_coverage,
                                !.matched_skill_ids = matched_skill_ids,
                                !.missing_skill_ids = missing_skill_ids,
                                !.skill_count_at_calculation = Cardinality(DOMAIN skills_of_user)]
        alignment_record ==
            [id |-> id, user_id |-> user_id, industry_category |-> industry,
             alignment_score |-> alignment_score,
             total_industry_skills |-> Cardinality(DOMAIN industry_skills),
             matched_skills |-> Cardinality(matched_skill_ids),
             skill_coverage |-> skill_coverage,
             matched_skill_ids |-> matched_skill_ids,
             missing_skill_ids |-> missing_skill_ids,
             skill_count_at_calculation |-> Cardinality(DOMAIN skills_of_user),
             calculated_at |-> t]
    IN IF raises THEN rows
       ELSE IF recent # {} THEN (rows \ {existing}) \cup {metrics(existing)}
       ELSE rows \cup {alignment_record}

\* _create_alignment_snapshot
create_alignment_snapshot(user_id, alignments_dict, total_skills, current_skills, t) ==
    LET technical == {k \in DOMAIN current_skills : is_technical_skill(current_skills[k].name)}
        top == IF Cardinality(DOMAIN alignments_dict) <= TopAlignments
               THEN DOMAIN alignments_dict
               ELSE CHOOSE T \in SUBSET DOMAIN alignments_dict :
                       /\ Cardinality(T) = TopAlignments
                       /\ \A i \in T, o \in DOMAIN alignments_dict \ T :
                             alignments_dict[i] >= alignments_dict[o]
    IN [user_id |-> user_id, total_skills |-> total_skills,
        technical_skills |-> Cardinality(technical),
        soft_skills |-> Cardinality(DOMAIN current_skills) - Cardinality(technical),
        top_industry_alignments |-> [i \in top |-> alignments_dict[i]],
        trigger_event |-> "skill_update", snapshot_date |-> t]

\* one step of the loop of calculate_current_alignment: the alignment of
\* one industry is calculated and stored
AlignStep(acc, industry, industry_skills, current_skills, user_id, t, raises) ==
    LET alignment == calculate_industry_alignment(current_skills, industry_skills)
        rows == store_alignment(acc.rows, user_id, industry, alignment, current_skills,
                                industry_skills, t, acc.next_id, raises)
    IN [rows |-> rows,
        alignments |-> DictPut(acc.alignments, industry, alignment),
        next_id |-> acc.next_id + Cardinality({r \in rows : \A q \in acc.rows : q.id # r.id}),
        done |-> FALSE]

\* the loop of calculate_current_alignment over the industries from the
\* k-th on; raise_at = k: the alignment of the k-th industry raises
RECURSIVE AlignLoop(_, _, _, _, _, _, _, _, _)
AlignLoop(acc, industries, k, requirements, current_skills, user_id, t, raise_at, store_fail) ==
    IF k > Len(industries) THEN [acc EXCEPT !.done = TRUE]
    ELSE IF raise_at = k THEN acc
    ELSE LET next == AlignStep(acc, industries[k], requirements[industries[k]],
                               current_skills, user_id, t, industries[k] \in store_fail)
         IN AlignLoop(next, industries, k + 1, requirements, current_skills, user_id, t,
                      raise_at, store_fail)

\* the body of calculate_current_alignment once the skills and the
\* requirements have been read
AlignAll(rows, snaps, first_id, current_skills, requirements, jobTable, user_id, t, raise_at, store_fail) ==
    LET industries == IndustrySeq(jobTable, requirements, 1)
        loop == AlignLoop([rows |-> rows, alignments |-> EmptyDict, next_id |-> first_id,
                           done |-> FALSE],
                          industries, 1, requirements, current_skills, user_id, t,
                          raise_at, store_fail)
    IN IF ~loop.done
       THEN [rows |-> loop.rows, snapshots |-> snaps, next_id |-> loop.next_id,
             alignments |-> EmptyDict]
       ELSE [rows |-> loop.rows,
             snapshots |-> Append(snaps,
                 create_alignment_snapshot(user_id, loop.alignments,
                     Cardinality(DOMAIN current_skills), current_skills, t)),
             next_id |-> loop.next_id, alignments |-> loop.alignments]

\* calculate_current_alignment for user_id over rows at time t: the rows
\* and snapshots of the session afterwards and the dictionary returned
calculate_current_alignment(rows, snaps, first_id, skill_rows, jobTable, user_id, t, raise_at, store_fail) ==
    LET current_skills == get_current_user_skills(skill_rows)
        requirements == get_industry_requirements(jobTable)
    IN IF DOMAIN current_skills = {}
       THEN [rows |-> rows, snapshots |-> snaps, next_id |-> first_id,
             alignments |-> EmptyDict]
       ELSE AlignAll(rows, snaps, first_id, current_skills, requirements,
                     jobTable, user_id, t, raise_at, store_fail)

HalfHoursPerDay == 48
TopWindowDays == 7
TimelineDays == 365

\* _get_top_industries: the industries of the top_n rows of the last 7 days
get_top_industries(rows, user_id, top_n, t) ==
    LET mine == {r \in rows : r.user_id = user_id
                              /\ r.calculated_at >= t - TopWindowDays * HalfHoursPerDay}
        top == IF Cardinality(mine) <= top_n THEN mine
               ELSE CHOOSE T \in SUBSET mine :
                       /\ Cardinality(T) = top_n
                       /\ \A i \in T, o \in mine \ T : i.alignment_score >= o.alignment_score
    IN {r.industry_category : r \in top}

\* the query of get_top_industries_timeline without the rn = 1 filter:
\* every row of the top industries inside the window
top_industries_all_rows(rows, user_id, top_n, days_back, t) ==
    LET names == get_top_industries(rows, user_id, top_n, t)
    IN {[industry |-> r.industry_category, alignment_score |-> r.alignment_score,
         timestamp |-> r.calculated_at] :
           r \in {q \in rows : /\ q.user_id = user_id
                               /\ q.calculated_at >= t - days_back * HalfHoursPerDay
                               /\ q.industry_category \in names}}

\* get_top_industries_timeline: the latest row of each top industry and day
get_top_industries_timeline(rows, user_id, top_n, days_back, t) ==
    LET names == get_top_industries(rows, user_id, top_n, t)
        mine == {r \in rows : /\ r.user_id = user_id
                              /\ r.calculated_at >= t - days_back * HalfHoursPerDay
                              /\ r.industry_category \in names}
        day(r) == r.calculated_at \div HalfHoursPerDay
        latest == {r \in mine : \A q \in mine :
                      (q.industry_category = r.industry_category /\ day(q) = day(r)) =>
                          q.calculated_at <= r.calculated_at}
    IN {[industry |-> r.industry_category, alignment_score |-> r.alignment_score,
         timestamp |-> r.calculated_at] : r \in latest}

\* INSERT INTO user_skills_emsi ... ON CONFLICT (user_id, emsi_skill_id)
\* DO UPDATE SET confidence = GREATEST(confidence, EXCLUDED.confidence)
upsert_user_skill(rows, name, proficiency, confidence) ==
    IF \E i \in 1..Len(rows) : rows[i].name = name
    THEN [i \in 1..Len(rows) |->
             IF rows[i].name = name
             THEN [rows[i] EXCEPT !.confidence = Max(@, confidence)]
             ELSE rows[i]]
    ELSE Append(rows, UE(name, proficiency, confidence))


AlignRecord(op, u, result, before, after) ==
    [op |-> op, user |-> u, result |-> result,
     added |-> {r.id : r \in after} \ {r.id : r \in before},
     updated |-> {r.id : r \in before \ after}]

\* the body of the skill loop of the resume upload (routers/resume.py lines
\* 181-218): the skill is saved and committed, then track_skill_event
\* records the event, recalculates the alignment and commits
SkillEvent(u, name, proficiency, confidence, raise_at, store_fail, commit_raises) ==
    LET skill_rows == upsert_user_skill(user_skills_emsi[u], name, proficiency, confidence)
        skill_event == [user_id |-> u, skill_name |-> name, event_type |-> "added",
                        proficiency_level |-> proficiency, confidence |-> confidence,
                        created_at |-> now]
        res == calculate_current_alignment(alignments, snapshots, al_next_id, skill_rows,
                                           job_postings, u, now, raise_at, store_fail)
    IN /\ al_ops < MaxAlignOps
       /\ is_valid_skill(name)
       /\ al_ops' = al_ops + 1
       /\ user_skills_emsi' = [user_skills_emsi EXCEPT ![u] = skill_rows]
       /\ al_next_id' = res.next_id
       /\ IF commit_raises
          THEN UNCHANGED <<alignments, snapshots, skill_history>>
          ELSE /\ alignments' = res.rows
               /\ snapshots' = res.snapshots
               /\ skill_history' = Append(skill_history, skill_event)
       /\ al_last' = AlignRecord("track_skill_event", u, ~commit_raises, alignments, alignments')
       /\ UNCHANGED <<schedVars, user_skills, job_postings, job_order, now>>

\* routers/skill_demand.py recalculate_user_alignment
Recalculate(u, raise_at, store_fail) ==
    LET res == calculate_current_alignment(alignments, snapshots, al_next_id,
                                           user_skills_emsi[u], job_postings, u, now,
                                           raise_at, store_fail)
        current_skills == get_current_user_skills(user_skills_emsi[u])
        found == DOMAIN res.alignments # {}
    IN /\ al_ops < MaxAlignOps
       /\ al_ops' = al_ops + 1
       /\ IF found
          THEN /\ alignments' = res.rows
               /\ snapshots' = Append(res.snapshots,
                      create_alignment_snapshot(u, res.alignments,
                          Cardinality(DOMAIN current_skills), current_skills, now))
               /\ al_next_id' = res.next_id
          ELSE UNCHANGED <<alignments, snapshots, al_next_id>>
       /\ al_last' = AlignRecord("recalculate", u, res.alignments, alignments, alignments')
       /\ UNCHANGED <<schedVars, storeVars, skill_history, now>>

\* routers/skill_demand.py get_alignment_timeline: without stored rows the
\* current alignment is calculated and returned, and the session is closed
\* without a commit
TimelineGet(u, top_n) ==
    LET timeline_data == get_top_industries_timeline(alignments, u, top_n, TimelineDays, now)
        res == calculate_current_alignment(alignments, snapshots, al_next_id,
                                           user_skills_emsi[u], job_postings, u, now, 0, {})
    IN /\ al_ops < MaxAlignOps
       /\ al_ops' = al_ops + 1
       /\ al_last' = AlignRecord("timeline", u,
                         IF timeline_data # {} THEN timeline_data ELSE res.alignments,
                         alignments, alignments)
       /\ UNCHANGED <<schedVars, storeVars, now, alignments, snapshots, skill_history,
                      al_next_id>>

AlignTick ==
    /\ now < MaxTime
    /\ now' = now + 1
    /\ UNCHANGED <<schedVars, storeVars, alignments, snapshots, skill_history, al_next_id,
                   al_last, al_ops>>

\* six postings of two categories for the industry requirements
AlignJobData == <<
    [active |-> TRUE, category |-> "tech", skills_v2 |-> <<>>,
     skills |-> <<R("python", 20), R("sql", 20), R("aws", 20)>>],
    [active |-> TRUE, category |-> "tech", skills_v2 |-> <<>>,
     skills |-> <<R("python", 20), R("sql", 10), R("excel", 20)>>],
    [active |-> TRUE, category |-> "tech", skills_v2 |-> <<>>,
     skills |-> <<R("python", 20), R("sql", 20)>>],
    [active |-> TRUE, category |-> "data", skills_v2 |-> <<>>,
     skills |-> <<R("sql", 20), R("excel", 10), R("python", 10), R("tableau", 20)>>],
    [active |-> TRUE, category |-> "data", skills_v2 |-> <<>>,
     skills |-> <<R("sql", 20), R("excel", 10), R("python", 10), R("tableau", 20)>>],
    [active |-> TRUE, category |-> "data", skills_v2 |-> <<>>,
     skills |-> <<R("sql", 20), R("excel", 20), R("python", 10)>>] >>

AlignEventSkills == {"python"}

\* 0.8, the proficiency the upload gives a fully matched skill
FullMatchProficiency == 16

AlignInit ==
    /\ user_skills_emsi = [u \in Users |-> Cycle(UserEmsiData, u)]
    /\ user_skills = [u \in Users |-> Cycle(UserV2Data, u)]
    /\ job_postings = [j \in 1..NAlignJobs |-> Cycle(AlignJobData, j)]
    /\ job_order = [i \in 1..NAlignJobs |-> NAlignJobs + 1 - i]
    /\ db = EmptyTables
    /\ tx = EmptyTables
    /\ next_id = 1
    /\ today = 0
    /\ pc = "idle" /\ mode = "none" /\ alg = "basic" /\ limit = DefaultLimit
    /\ queue = <<>> /\ computed = <<>> /\ stats = NoStats
    /\ runs = 0
    /\ pre = [u \in Users |-> {}]
    /\ truth = [u \in Users |-> "pending"]
    /\ last_save = None
    /\ prev_result = [u \in Users |-> None]
    /\ cur_result = [u \in Users |-> None]
    /\ AuxInit
    /\ NoCalc

AlignNext ==
    \/ \E u \in Users, name \in AlignEventSkills, store_fail \in {{}, {"tech"}},
          commit_raises \in BOOLEAN :
          SkillEvent(u, name, FullMatchProficiency, W, 0, store_fail, commit_raises)
    \/ \E u \in Users, raise_at \in 0..1 : Recalculate(u, raise_at, {})
    \/ \E u \in Users : TimelineGet(u, TopAlignments)
    \/ AlignTick

SpecAlign == AlignInit /\ [][AlignNext]_vars

\* the calendar date of the time 0 of the alignment clock: 2024-12-30
EpochYear == 2024
EpochDay == 30

\* calculated_at.strftime('%Y-%m-%d'): year, month and day of the digits
\* of the string; the clock starts on 30 December and stays within
\* January of the next year
strftime(t) ==
    LET d == t \div HalfHoursPerDay
    IN IF EpochDay + d <= 31 THEN <<EpochYear, 12, EpochDay + d>>
       ELSE <<EpochYear + 1, 1, EpochDay + d - 31>>

\* the order of Python's sorted() on the zero-padded date strings
DateLess(a, b) ==
    \/ a[1] < b[1]
    \/ a[1] = b[1] /\ a[2] < b[2]
    \/ a[1] = b[1] /\ a[2] = b[2] /\ a[3] < b[3]

\* round(float(alignment_score) * 100, 1), in tenths of a percent
round_percent(alignment_score) == (alignment_score * 1000 + S \div 2) \div S

\* ORDER BY calculated_at ASC (rows of one time in the order of their ids)
RECURSIVE RowsByTime(_)
RowsByTime(rows) ==
    IF rows = {} THEN <<>>
    ELSE LET first == CHOOSE r \in rows : \A q \in rows :
                          \/ r.calculated_at < q.calculated_at
                          \/ r.calculated_at = q.calculated_at /\ r.id <= q.id
         IN <<first>> \o RowsByTime(rows \ {first})

\* sorted() over a set of dates
RECURSIVE SortedDates(_)
SortedDates(dates) ==
    IF dates = {} THEN <<>>
    ELSE LET first == CHOOSE d \in dates : \A e \in dates \ {d} : DateLess(d, e)
         IN <<first>> \o SortedDates(dates \ {first})

\* the loop of get_alignment_timeline over the rows of the query: a later
\* row of a day and industry overwrites the earlier one
RECURSIVE GroupByDay(_, _)
GroupByDay(results, timeline) ==
    IF results = <<>> THEN timeline
    ELSE LET row == Head(results)
             date_key == strftime(row.calculated_at)
             industries == IF date_key \in DOMAIN timeline THEN timeline[date_key]
                           ELSE EmptyDict
             entry == [alignment_score |-> round_percent(row.alignment_score),
                       skill_coverage |-> row.skill_coverage,
                       matched_skills |-> row.matched_skills,
                       total_industry_skills |-> row.total_industry_skills]
         IN GroupByDay(Tail(results),
                DictPut(timeline, date_key, DictPut(industries, row.industry_category, entry)))

\* SkillAlignmentService.get_alignment_timeline at time t
get_alignment_timeline(rows, user_id, days_back, t) ==
    LET cutoff_date == t - days_back * HalfHoursPerDay
        results == RowsByTime({r \in rows : r.user_id = user_id
                                            /\ r.calculated_at >= cutoff_date})
        timeline == GroupByDay(results, EmptyDict)
        dates == SortedDates(DOMAIN timeline)
    IN [i \in 1..Len(dates) |-> [date |-> dates[i], industries |-> timeline[dates[i]]]]

\* the rows of the query of get_top_industries_timeline in the order
\* ORDER BY calculated_at ASC, as data points
RECURSIVE PointsByTime(_)
PointsByTime(results) ==
    IF results = {} THEN <<>>
    ELSE LET first == CHOOSE r \in results : \A q \in results : r.timestamp <= q.timestamp
         IN <<[date |-> strftime(first.timestamp),
               alignment_score |-> round_percent(first.alignment_score),
               timestamp |-> first.timestamp]>> \o PointsByTime(results \ {first})

\* the grouping of get_top_industries_timeline: industry -> data points
industry_timelines(results) ==
    [industry \in {r.industry : r \in results} |->
        PointsByTime({r \in results : r.industry = industry})]

\* next((p for p in data_points if p['date'] == date), None)
FirstOfDate(data_points, date) ==
    data_points[CHOOSE i \in 1..Len(data_points) :
                   /\ data_points[i].date = date
                   /\ \A j \in 1..(i - 1) : data_points[j].date # date]

\* the timeline points of the router's get_skill_alignment_timeline
timeline_points(timeline_data) ==
    LET all_dates == UNION {{timeline_data[k][i].date : i \in 1..Len(timeline_data[k])} :
                               k \in DOMAIN timeline_data}
        dates == SortedDates(all_dates)
        industries_data(date) ==
            [industry \in {k \in DOMAIN timeline_data :
                              \E i \in 1..Len(timeline_data[k]) : timeline_data[k][i].date = date}
               |-> LET date_data == FirstOfDate(timeline_data[industry], date)
                   IN [alignment_score |-> date_data.alignment_score,
                       timestamp |-> date_data.timestamp]]
    IN [i \in 1..Len(dates) |-> [date |-> dates[i], industries |-> industries_data(dates[i])]]

\* what a timeline request returns: the data points, the window, the number
\* of industries asked for (0 when the request has no such argument), and
\* the rows its session saw when it answered
TimelineResult(points, days_back, top_n, session, fallback) ==
    [timeline |-> points, days_back |-> days_back, top_n |-> top_n, session |-> session,
     fallback |-> fallback]

\* SkillAlignmentService.get_alignment_timeline(user_id, days_back)
GetAlignmentTimeline(u, days_back) ==
    /\ al_ops < MaxAlignOps
    /\ al_ops' = al_ops + 1
    /\ al_last' = AlignRecord("get_alignment_timeline", u,
                      TimelineResult(get_alignment_timeline(alignments, u, days_back, now),
                                     days_back, 0, alignments, FALSE),
                      alignments, alignments)
    /\ UNCHANGED <<schedVars, storeVars, now, alignments, snapshots, skill_history,
                   al_next_id>>

\* routers/skill_demand.py get_skill_alignment_timeline(user_id, days_back,
\* top_industries): without timeline data the current alignment is
\* calculated in the session and returned as one data point of today; the
\* session is closed without a commit
GetSkillAlignmentTimeline(u, days_back, top_n) ==
    LET stored == industry_timelines(
                      get_top_industries_timeline(alignments, u, top_n, days_back, now))
        res == calculate_current_alignment(alignments, snapshots, al_next_id,
                                           user_skills_emsi[u], job_postings, u, now, 0, {})
        current == [industry \in DOMAIN res.alignments |->
                       <<[date |-> strftime(now),
                          alignment_score |-> round_percent(res.alignments[industry]),
                          timestamp |-> now]>>]
        fallback == DOMAIN stored = {}
        timeline_data == IF fallback THEN current ELSE stored
    IN /\ al_ops < MaxAlignOps
       /\ al_ops' = al_ops + 1
       /\ al_last' = AlignRecord("alignment_timeline", u,
                         TimelineResult(timeline_points(timeline_data), days_back, top_n,
                                        IF fallback THEN res.rows ELSE alignments, fallback),
                         alignments, alignments)
       /\ UNCHANGED <<schedVars, storeVars, now, alignments, snapshots, skill_history,
                      al_next_id>>

\* a stored user_industry_alignment row
AlignRow(id, user_id, industry, alignment_score, t) ==
    [id |-> id, user_id |-> user_id, industry_category |-> industry,
     alignment_score |-> alignment_score, total_industry_skills |-> 3,
     matched_skills |-> 1, skill_coverage |-> 333,
     matched_skill_ids |-> {"python"}, missing_skill_ids |-> {"sql", "excel"},
     skill_count_at_calculation |-> 1, calculated_at |-> t]

\* the times of the stored rows: three of the first day (the first one
\* more than two days before the request), one of the second and one of the
\* third; rows of one industry lie more than an hour apart
TimelineTimes == <<0, 40, 47, 50, 100>>
TimelineNow == 110
TimelineIndustries == <<"tech", "data">>
TimelineScores == << <<900, 300, 500, 200, 700>>, <<100, 800, 400, 600, 250>> >>
TimelineDaysBack == {1, 2, TimelineDays}
TimelineTopN == {1, 2, TopAlignments}

\* the rows user 1 can have, and a row of user 2 that is always there
TimelineRows ==
    {AlignRow((k - 1) * Len(TimelineTimes) + i, 1, TimelineIndustries[k],
              TimelineScores[k][i], TimelineTimes[i]) :
        k \in 1..Len(TimelineIndustries), i \in 1..Len(TimelineTimes)}
OtherUserRow == AlignRow(Len(TimelineIndustries) * Len(TimelineTimes) + 1, 2, "tech", 990, 100)

TimelineInit ==
    /\ user_skills_emsi = [u \in Users |-> Cycle(UserEmsiData, u)]
    /\ user_skills = [u \in Users |-> Cycle(UserV2Data, u)]
    /\ job_postings = [j \in 1..NAlignJobs |-> Cycle(AlignJobData, j)]
    /\ job_order = [i \in 1..NAlignJobs |-> NAlignJobs + 1 - i]
    /\ db = EmptyTables
    /\ tx = EmptyTables
    /\ next_id = 1
    /\ today = 0
    /\ pc = "idle" /\ mode = "none" /\ alg = "basic" /\ limit = DefaultLimit
    /\ queue = <<>> /\ computed = <<>> /\ stats = NoStats
    /\ runs = 0
    /\ pre = [u \in Users |-> {}]
    /\ truth = [u \in Users |-> "pending"]
    /\ last_save = None
    /\ prev_result = [u \in Users |-> None]
    /\ cur_result = [u \in Users |-> None]
    /\ fit_calls = 0
    /\ fetched = <<>>
    /\ now = TimelineNow
    /\ \E mine \in SUBSET TimelineRows : alignments = mine \cup {OtherUserRow}
    /\ snapshots = <<>>
    /\ skill_history = <<>>
    /\ al_next_id = Len(TimelineIndustries) * Len(TimelineTimes) + 2
    /\ al_last = None
    /\ al_ops = 0
    /\ sessions = None
    /\ NoCalc

TimelineNext ==
    \/ \E days_back \in TimelineDaysBack : GetAlignmentTimeline(1, days_back)
    \/ \E days_back \in TimelineDaysBack, top_n \in TimelineTopN :
          GetSkillAlignmentTimeline(1, days_back, top_n)

SpecTimeline == TimelineInit /\ [][TimelineNext]_vars

\* ------------------------------------------------------------ properties
\* ---------------------------------------- the similarity and gap calculator
\* the skill ids the dictionaries are drawn over: technical ones and one
\* that is not technical
CalcSkillOrder == <<"python", "excel", "sql", "aws", "tableau">>
CalcSkills == {CalcSkillOrder[i] : i \in 1..Min(MaxCalcSkills, Len(CalcSkillOrder))}

\* proficiencies 0, 0.5 and 1.0; importances 0, 1.0 and 2.0
UserWeights == {0, W \div 2, UserWeightCap}
JobWeights == {0, DefaultImportance, JobWeightCap}

\* every dictionary with keys among `keys` and values among `weights`
Dicts(keys, weights) == UNION {[K -> weights] : K \in SUBSET keys}

CalcInit ==
    /\ SchedInit
    /\ AuxInit
    /\ calc_user \in Dicts(CalcSkills, UserWeights)
    /\ calc_job \in Dicts(CalcSkills, JobWeights)
    /\ calc_result = None

\* self._calculate_similarity(user_skills, job_skills), job_matching.py:59
CalcSimilarity ==
    /\ calc_result' = [op |-> "similarity",
                       value |-> calculate_similarity(calc_user, calc_job)]
    /\ UNCHANGED <<schedVarsNoCalc, storeVars, alignVars, calc_user, calc_job>>

\* self._analyze_skill_gaps(user_skills, job_skills), job_matching.py:62
CalcGaps ==
    /\ calc_result' = [op |-> "gaps", value |-> analyze_skill_gaps(calc_user, calc_job)]
    /\ UNCHANGED <<schedVarsNoCalc, storeVars, alignVars, calc_user, calc_job>>

CalcNext == CalcSimilarity \/ CalcGaps

SpecCalc == CalcInit /\ [][CalcNext]_vars

\* the user dictionaries of _get_current_user_skills over the skill ids:
\* proficiency and confidence 0.5 or 1.0
AlignUserEntries(k) ==
    {[name |-> k, proficiency |-> p, confidence |-> c] :
        p \in {W \div 2, W}, c \in {W \div 2, W}}
AlignUserDicts ==
    UNION {{d \in [K -> UNION {AlignUserEntries(k) : k \in K}] : \A k \in K : d[k].name = k} :
              K \in SUBSET CalcSkills}

\* the industry profiles of _get_industry_requirements over the skill ids:
\* average importance 0.5, 1.0 or 2.0; an industry of the result has at
\* least one skill
AlignIndustryDicts ==
    UNION {{d \in [K -> [name : K, importance : {W \div 2, W, 2 * W}]] :
               \A k \in K : d[k].name = k} :
              K \in (SUBSET CalcSkills) \ {{}}}

AlignCalcInit ==
    /\ SchedInit
    /\ AuxInit
    /\ calc_user \in AlignUserDicts
    /\ calc_job \in AlignIndustryDicts
    /\ calc_result = None

\* self._calculate_industry_alignment(user_skills, required_skills),
\* skill_alignment_service.py:60
CalcAlignment ==
    /\ calc_result' = [op |-> "alignment",
                       value |-> calculate_industry_alignment(calc_user, calc_job)]
    /\ UNCHANGED <<schedVarsNoCalc, storeVars, alignVars, calc_user, calc_job>>

AlignCalcNext == CalcAlignment

SpecAlignCalc == AlignCalcInit /\ [][AlignCalcNext]_vars

GapsOf(t, m) == {g \in t.gaps : g.match_id = m.id}

\* C1: the store holds at most one MatchResult per (user, job) pair, and
\* right after a successful save for user u the stored results of u are
\* exactly the ones passed to that save, each stored once, under ids that the
\* save has drawn (every prior result of u is gone).
C1_OneResultPerPair ==
    /\ \A m1, m2 \in db.matches :
          (m1.user_id = m2.user_id /\ m1.job_id = m2.job_id) => m1 = m2
    /\ (last_save # None /\ last_save.ok) =>
          /\ ProjUser(db, last_save.user) = last_save.passed
          /\ Cardinality(MatchesOf(db, last_save.user)) = last_save.count
          /\ \A m \in MatchesOf(db, last_save.user) : m.id >= last_save.first_id

\* a successful save of a non-empty list over a non-empty prior set
C1_Witness ==
    /\ last_save # None /\ last_save.ok
    /\ last_save.count >= 2
    /\ MatchesOf(last_save.before, last_save.user) # {}

\* C2: when recompute_all_matches returns, failed_users is the number of
\* users whose computation or save raised, and every other user of the
\* batch is counted in processed_users.
C2_FailedUsersCounted ==
    (pc = "idle" /\ mode = "batch") =>
        /\ stats.failed_users = Cardinality({u \in Users : truth[u] = "failed"})
        /\ stats.processed_users = stats.total_users - stats.failed_users

\* C3: a save in which an insert, the commit or the creation of a SkillGap
\* failed leaves the store as it was before the save, and every stored
\* TF-IDF MatchResult has a SkillGap for each of its missing skills.
C3_RollbackEntire ==
    /\ (last_save # None /\ (~last_save.ok \/ last_save.gap_failed)) =>
          db = last_save.before
    /\ \A m \in db.matches :
          m.algorithm_version = "tfidf_v1" =>
              {g.skill_id : g \in GapsOf(db, m)} = m.missing_skills

\* C4: while user u is being recomputed by the scheduler the committed store
\* shows u's complete old set; once the save of a non-empty new set over a
\* non-empty old set has returned it shows the complete old set or the
\* complete new set, never an empty or a mixed one.
C4_AtomicReplace ==
    /\ (mode \in {"batch", "single"} /\ pc \in {"invalidated", "computed"}) =>
          ProjUser(db, Head(queue)) = pre[Head(queue)]
    /\ (mode \in {"batch", "single"} /\ last_save # None
          /\ pre[last_save.user] # {} /\ last_save.passed # {}) =>
          /\ ProjUser(db, last_save.user) \in {pre[last_save.user], last_save.passed}
          /\ MatchesOf(db, last_save.user) # {}

\* the scheduler has replaced a non-empty old set by a different non-empty
\* new set
C4_Witness ==
    /\ mode \in {"batch", "single"} /\ last_save # None /\ last_save.ok
    /\ pre[last_save.user] # {} /\ last_save.passed # {}
    /\ last_save.passed # pre[last_save.user]
    /\ ProjUser(db, last_save.user) = last_save.passed

\* C5: between two users of a batch run, and after the run has returned or
\* has been stopped, every user whose recompute did not complete (it raised,
\* or it has not been reached) has the MatchResult set of before the run.
C5_AllOrNothing ==
    (mode \in {"batch", "stopped"} /\ pc \in {"idle", "loop"}) =>
        \A u \in Users :
            truth[u] \in {"failed", "pending"} => ProjUser(db, u) = pre[u]

ComputeCall == pc = "invalidated" /\ pc' \in {"computed", "idle"} /\ queue' = queue

\* C9: a call of match_user_to_jobs or compute_matches leaves the persisted
\* MatchResults and SkillGaps, the session's pending changes, the id counter,
\* the skill assertions and the job postings as they were, also when it
\* fails internally and returns the empty list.
C9_ComputeIsPure ==
    [][ComputeCall => UNCHANGED <<db, tx, next_id, storeVars>>]_vars

\* a computation that failed internally has returned the empty list for a
\* user who has stored matches
C9_Witness ==
    /\ pc = "computed" /\ computed = <<>>
    /\ truth[Head(queue)] = "failed"
    /\ MatchesOf(db, Head(queue)) # {}
    /\ db.gaps # {}

\* the tuple of the rank order: number of matching skills, overall score,
\* number of job skills, minus number of user skills
RankTuple(m) == <<Cardinality(m.matching_skills), m.similarity_score,
                  m.total_job_skills, 0 - m.total_user_skills>>

TupleDescending(list) ==
    \A i, j \in 1..Len(list) : i < j => ~KeyLess(RankTuple(list[i]), RankTuple(list[j]))

\* the candidates of the user at the head of the queue, unranked
AllCandidates ==
    Candidates(get_user_skills(user_skills_emsi[Head(queue)]),
               get_jobs_with_skills(job_postings, job_order))

SkillIds(rows) ==
    {normalize_skill_name(rows[i].name) : i \in {k \in 1..Len(rows) : is_valid_skill(rows[k].name)}}

Overlap(u, j) == SkillIds(user_skills_emsi[u]) \cap SkillIds(job_postings[j].skills)

\* C8: every match returned by match_user_to_jobs is for a posting that
\* shares at least 2 skill ids with the user; a posting that shares 0 or 1
\* is in no returned list.
C8_TwoSkillFloor ==
    (pc = "computed" /\ alg = "basic") =>
        \A k \in 1..Len(computed) :
            /\ Cardinality(Overlap(Head(queue), computed[k].job_id)) >= MinMatchingSkills
            /\ computed[k].matching_skills = Overlap(Head(queue), computed[k].job_id)

\* a posting with five skills of which the user has one is left out of a
\* non-empty ranked list although its coverage is above zero
C8_Witness ==
    /\ pc = "computed" /\ alg = "basic" /\ computed # <<>>
    /\ \E j \in Jobs :
          /\ job_postings[j].active
          /\ Cardinality(SkillIds(job_postings[j].skills)) = 5
          /\ Cardinality(Overlap(Head(queue), j)) = 1
          /\ analyze_skill_gaps(get_user_skills(user_skills_emsi[Head(queue)]),
                                FoldJobSkills(job_postings[j].skills, EmptyDict)).coverage > 0
          /\ \A k \in 1..Len(computed) : computed[k].job_id # j

SamePair(r, q) == r.user_id = q.user_id /\ r.industry_category = q.industry_category

\* C10: a calculation stores a new row for a (user, industry) pair only when
\* no row of the pair was calculated within the last hour; rows that stay
\* keep their pair and their calculated_at; any two rows of one pair are
\* more than one hour apart; a row older than one hour is not modified.
C10_HourWindow ==
    [][/\ \A r \in alignments' :
             (\A q \in alignments : q.id # r.id) =>
                 /\ r.calculated_at = now
                 /\ \A q \in alignments : SamePair(q, r) => q.calculated_at < now - Hour
       /\ \A q \in alignments : \E r \in alignments' :
             r.id = q.id /\ SamePair(r, q) /\ r.calculated_at = q.calculated_at
       /\ \A r, q \in alignments' :
             (SamePair(r, q) /\ r.id # q.id) =>
                 (r.calculated_at - q.calculated_at > Hour
                    \/ q.calculated_at - r.calculated_at > Hour)
       /\ \A q \in alignments : q.calculated_at < now - Hour => q \in alignments'
      ]_vars

\* a pair has two rows, and one of them carries a score that differs from
\* the score of the calculation that created it and is the score of a
\* calculation made exactly one hour later
C10_Witness ==
    \E r, q \in alignments :
        /\ SamePair(r, q) /\ r.id # q.id
        /\ \E i, k \in 1..Len(snapshots) :
              /\ snapshots[i].user_id = r.user_id /\ snapshots[k].user_id = r.user_id
              /\ snapshots[i].snapshot_date = r.calculated_at
              /\ snapshots[k].snapshot_date = r.calculated_at + Hour
              /\ r.industry_category \in DOMAIN snapshots[i].top_industry_alignments
              /\ r.industry_category \in DOMAIN snapshots[k].top_industry_alignments
              /\ snapshots[i].top_industry_alignments[r.industry_category] # r.alignment_score
              /\ snapshots[k].top_industry_alignments[r.industry_category] = r.alignment_score

\* C11: after a cleanup_old_matches(days_old) that succeeded, no stored
\* MatchResult was computed more than days_old days before the call, every
\* row the call removed was computed more than days_old days before it, and
\* the count returned is the number of rows removed.
C11_CleanupByAge ==
    (mode = "cleanup" /\ ~stats.raised) =>
        LET cutoff_date == stats.at - stats.days_old
        IN /\ \A m \in db.matches : m.calculated_at >= cutoff_date
           /\ \A m \in stats.deleted : m.calculated_at < cutoff_date
           /\ stats.deleted_count = Cardinality(stats.deleted)

\* C12: within one recompute_all_matches run with the TF-IDF algorithm the
\* vectorizer is fitted at most once, however many users are processed.
C12_FitOncePerRun ==
    (mode = "batch" /\ alg = "tfidf") => fit_calls <= 1

\* the key sets of the two dictionaries under calculation
CalcA == DOMAIN calc_user
CalcB == DOMAIN calc_job
IsGaps == calc_result # None /\ calc_result.op = "gaps"
IsSimilarity == calc_result # None /\ calc_result.op = "similarity"

\* C13 as stated: for every user and job skill set the coverage is
\* |matching| / |job skills|, lies in [0,1], is 1.0 if and only if every job
\* skill id is in matching_skills, and is 0 when the job set is empty.
C13_CoverageIffAllMatched ==
    IsGaps =>
        LET r == calc_result.value
        IN /\ r.matching_skills = CalcA \cap CalcB
           /\ r.coverage >= 0 /\ r.coverage <= S
           /\ CalcB # {} => r.coverage = (Cardinality(CalcA \cap CalcB) * S) \div Cardinality(CalcB)
           /\ CalcB = {} => r.coverage = 0
           /\ (r.coverage = S) <=> (CalcB \subseteq r.matching_skills)

\* C13 amended: the same, with the equivalence for non-empty job sets only
\* (for an empty job set no job skill is missing and the coverage is 0).
C13_Coverage ==
    IsGaps =>
        LET r == calc_result.value
        IN /\ r.matching_skills = CalcA \cap CalcB
           /\ r.coverage >= 0 /\ r.coverage <= S
           /\ CalcB # {} => r.coverage = (Cardinality(CalcA \cap CalcB) * S) \div Cardinality(CalcB)
           /\ CalcB = {} => r.coverage = 0
           /\ CalcB # {} => ((r.coverage = S) <=> (CalcB \subseteq r.matching_skills))

\* full coverage of a non-empty job set by a user who has other skills too
C13_Witness ==
    /\ IsGaps
    /\ CalcB # {} /\ calc_result.value.coverage = S
    /\ CalcA \ CalcB # {}

\* C14: the jaccard value is symmetric in its two skill sets, is 1.0 for
\* two equal non-empty sets, is 0 when one set is empty, and is
\* |A n B| / |A u B| otherwise.
C14_JaccardLaws ==
    IsSimilarity =>
        LET j == calc_result.value.jaccard
        IN /\ j = calculate_similarity(calc_job, calc_user).jaccard
           /\ (CalcA = CalcB /\ CalcA # {}) => j = S
           /\ (CalcA = {} \/ CalcB = {}) => j = 0
           /\ CalcA \cup CalcB # {} =>
                 j = (Cardinality(CalcA \cap CalcB) * S) \div Cardinality(CalcA \cup CalcB)

\* two overlapping sets of which neither contains the other
C14_Witness ==
    /\ IsSimilarity
    /\ CalcA \cap CalcB # {} /\ CalcA \ CalcB # {} /\ CalcB \ CalcA # {}
    /\ calc_result.value.jaccard > 0 /\ calc_result.value.jaccard < S

RowSkillIds(rows) == {emsi_skill_id(rows[i].name) : i \in 1..Len(rows)}

\* the importance the rows give to a skill id
RowImportance(rows, skill_id) ==
    LET i == CHOOSE k \in 1..Len(rows) : emsi_skill_id(rows[k].name) = skill_id
    IN IF rows[i].weight = 0 THEN DefaultImportance ELSE rows[i].weight

IsSkillGaps == calc_result # None /\ calc_result.op = "skill_gaps" /\ ~calc_result.value.error

\* C15: in the report of calculate_skill_gaps_dynamic the gaps are exactly
\* the job skills the user does not have, each of type 'missing' with the
\* priority of its importance (high from 1.0, medium from 0.7, low below),
\* and the coverage is the share of the job skills the user has; for user
\* {python: 0.8, sql: 0.6} and job {python, sql, aws} at importance 1.0 the
\* coverage is 2/3 and the only gap is aws with priority high.
C15_GapReport ==
    IsSkillGaps =>
        LET r == calc_result.value
            user_rows == user_skills_emsi[calc_result.user]
            job_rows == job_postings[calc_result.job].skills
            absent == RowSkillIds(job_rows) \ RowSkillIds(user_rows)
        IN /\ {g.skill_id : g \in r.gaps} = absent
           /\ \A g \in r.gaps :
                 /\ g.gap_type = "missing"
                 /\ g.priority = (IF RowImportance(job_rows, g.skill_id) >= W THEN "high"
                                  ELSE IF RowImportance(job_rows, g.skill_id) >= MediumImportance
                                  THEN "medium" ELSE "low")
           /\ (RowSkillIds(user_rows) = {emsi_skill_id("python"), emsi_skill_id("sql")}
                 /\ RowSkillIds(job_rows) = {emsi_skill_id("python"), emsi_skill_id("sql"),
                                             emsi_skill_id("aws")}) =>
                 /\ r.skill_coverage = (2 * S) \div 3
                 /\ {g.skill_id : g \in r.gaps} = {emsi_skill_id("aws")}

\* the alignment calculator has been applied to the drawn dictionaries
IsAlignment == calc_result # None /\ calc_result.op = "alignment"

MatchedSkills == DOMAIN calc_user \cap DOMAIN calc_job

\* the user has every skill of the profile with proficiency 1 and
\* confidence 1
FullyAligned ==
    /\ DOMAIN calc_job \subseteq DOMAIN calc_user
    /\ \A k \in DOMAIN calc_job : calc_user[k].proficiency = W /\ calc_user[k].confidence = W

\* C16 as stated: 0 without a matched skill, 1.0 whenever the user has every
\* profiled skill with proficiency 1 and confidence 1, a value in [0,1], and
\* the unpenalised score times matched/3 when fewer than 3 skills match.
C16_AlignmentAsStated ==
    IsAlignment =>
        /\ calc_result.value >= 0 /\ calc_result.value <= S
        /\ MatchedSkills = {} => calc_result.value = 0
        /\ FullyAligned => calc_result.value = S
        /\ Cardinality(MatchedSkills) < MinMatchedSkills =>
               calc_result.value =
                   (raw_alignment(calc_user, calc_job) * Cardinality(MatchedSkills))
                       \div MinMatchedSkills

\* C16: _calculate_industry_alignment returns 0 when the user has none of
\* the profiled skills, returns 1.0 when the user has every profiled skill
\* with proficiency 1 and confidence 1 and the profile has at least 3
\* skills, always returns a value in [0,1], and when fewer than 3 skills
\* match returns the unpenalised score multiplied by matched/3 (so a full
\* match of a profile of one or two skills stays below 1.0).
C16_Alignment ==
    IsAlignment =>
        /\ calc_result.value >= 0 /\ calc_result.value <= S
        /\ MatchedSkills = {} => calc_result.value = 0
        /\ (FullyAligned /\ Cardinality(DOMAIN calc_job) >= MinMatchedSkills) =>
               calc_result.value = S
        /\ Cardinality(MatchedSkills) < MinMatchedSkills =>
               /\ calc_result.value =
                      (raw_alignment(calc_user, calc_job) * Cardinality(MatchedSkills))
                          \div MinMatchedSkills
               /\ calc_result.value < S

\* a full match of a profile of two skills, scored after the penalty
C16_Witness ==
    /\ IsAlignment
    /\ FullyAligned
    /\ Cardinality(DOMAIN calc_job) = 2
    /\ calc_result.value > 0 /\ calc_result.value < S

\* a timeline request has answered
IsTimeline ==
    al_last # None /\ al_last.op \in {"get_alignment_timeline", "alignment_timeline"}

\* the rows of the answering session for the user, industry and date of an
\* entry, inside the days_back window
RowsOfEntry(date, industry) ==
    {r \in al_last.result.session :
        /\ r.user_id = al_last.user
        /\ r.industry_category = industry
        /\ strftime(r.calculated_at) = date
        /\ r.calculated_at >= now - al_last.result.days_back * HalfHoursPerDay}

\* C17: the alignment timeline has at most one entry per (calendar day,
\* industry), the entry carries the score of the row with the latest
\* calculated_at of that day and industry among the rows inside the
\* days_back window, and the data points are in ascending date order.
C17_Timeline ==
    IsTimeline =>
        LET points == al_last.result.timeline
        IN \A i \in DOMAIN points :
              /\ \A j \in DOMAIN points : i < j => DateLess(points[i].date, points[j].date)
              /\ \A j \in DOMAIN points : points[i].date = points[j].date => i = j
              /\ \A k \in DOMAIN points[i].industries :
                    /\ RowsOfEntry(points[i].date, k) # {}
                    /\ \E r \in RowsOfEntry(points[i].date, k) :
                          /\ \A q \in RowsOfEntry(points[i].date, k) :
                                q.calculated_at <= r.calculated_at
                          /\ points[i].industries[k].alignment_score
                                = round_percent(r.alignment_score)

\* the endpoint answers from stored rows over days of two years; one day
\* has two rows of an industry inside the window, the earlier with the
\* higher score, and one row lies outside the window
C17_Witness ==
    /\ IsTimeline
    /\ al_last.op = "alignment_timeline"
    /\ ~al_last.result.fallback
    /\ Len(al_last.result.timeline) >= 2
    /\ \E i, j \in DOMAIN al_last.result.timeline :
          al_last.result.timeline[i].date[1] < al_last.result.timeline[j].date[1]
    /\ \E i \in DOMAIN al_last.result.timeline :
          \E k \in DOMAIN al_last.result.timeline[i].industries :
             \E r, q \in RowsOfEntry(al_last.result.timeline[i].date, k) :
                r.calculated_at < q.calculated_at /\ r.alignment_score > q.alignment_score
    /\ \E r \in alignments :
          /\ r.user_id = al_last.user
          /\ r.calculated_at < now - al_last.result.days_back * HalfHoursPerDay

\* the user has no valid skill after normalization
NoValidSkill(u) ==
    \A i \in 1..Len(user_skills_emsi[u]) : ~is_valid_skill(user_skills_emsi[u][i].name)

\* there is no active job with skills: every posting is inactive or has
\* fewer than two valid skills
NoJobWithSkills ==
    \A j \in DOMAIN job_postings :
        \/ ~job_postings[j].active
        \/ Cardinality({normalize_skill_name(job_postings[j].skills[i].name) :
                           i \in {k \in 1..Len(job_postings[j].skills) :
                                     is_valid_skill(job_postings[j].skills[k].name)}})
              < MinJobSkills

\* C19: match_user_to_jobs returns an empty list, without raising, when the
\* user has no valid skill after normalization or when there is no active
\* job with skills, and the caller takes the empty result as a success: the
\* computation step leaves the failure count and the user's mark alone, and
\* the batch then counts the user as processed.
C19_EmptyIsSuccess ==
    [][/\ (/\ pc = "invalidated"
           /\ alg = "basic"
           /\ truth' = truth
           /\ NoValidSkill(Head(queue)) \/ NoJobWithSkills)
          => /\ computed' = <<>>
             /\ pc' = (IF mode = "endpoint" THEN "idle" ELSE "computed")
             /\ stats' = stats
       /\ (/\ pc = "computed"
           /\ mode = "batch"
           /\ computed = <<>>
           /\ truth[Head(queue)] = "pending")
          => /\ stats'.processed_users = stats.processed_users + 1
             /\ stats'.failed_users = stats.failed_users
             /\ stats'.total_matches = stats.total_matches]_vars

\* a batch over a store without an active job with skills has gone through
\* its users, one of them without a valid skill and one with valid skills:
\* all are processed, none has failed
C19_Witness ==
    /\ mode = "batch" /\ pc = "loop" /\ queue = <<>>
    /\ NoJobWithSkills
    /\ \E u, v \in Users : NoValidSkill(u) /\ ~NoValidSkill(v)
                           /\ user_skills[u] # <<>> /\ user_skills[v] # <<>>
    /\ stats.total_users >= 2
    /\ stats.processed_users = stats.total_users
    /\ stats.failed_users = 0
    /\ \A u \in Users : truth[u] # "failed"

\* both requests have committed
BothSaved == sessions # None /\ \A s \in Requests : sessions[s].done

\* C20: when two saves for the same user run at the same time in separate
\* transactions, the committed store holds at most one MatchResult per
\* (user, job) and ends in a state that one of the two serial orders
\* produces: the list of the request that saved last.
C20_ConcurrentSaves ==
    BothSaved =>
        /\ \A m1, m2 \in db.matches :
              (m1.user_id = m2.user_id /\ m1.job_id = m2.job_id) => m1 = m2
        /\ \E s \in Requests : ProjUser(db, ConcUser) = ProjList(sessions[s].list)
                               /\ Cardinality(MatchesOf(db, ConcUser)) = Len(sessions[s].list)

\* a recompute of the user at the head of the queue is under way
Recomputing == pc \in {"loop", "invalidated", "computed"} /\ queue # <<>>

\* C21: recomputing or saving the matches of user u writes only u's
\* MatchResults: no step of u's recompute, whether it succeeds or fails, in
\* a batch or in a single-user recompute, changes the stored MatchResult set
\* of another user v.
C21_OnlyOwnMatches ==
    [][Recomputing =>
          \A v \in Users \ {Head(queue)} : MatchesOf(db', v) = MatchesOf(db, v)]_vars

\* C22: every stored SkillGap refers to exactly one existing MatchResult,
\* in the committed store and in the session: when a MatchResult is
\* superseded by a recompute or removed by cleanup its SkillGaps go with it.
C22_NoOrphanGap ==
    \A t \in {db, tx} : \A g \in t.gaps :
        Cardinality({m \in t.matches : m.id = g.match_id}) = 1

\* a save has replaced matches of its user that had SkillGaps: those gaps
\* are gone and the new matches have gaps of their own
C22_Witness ==
    /\ last_save # None /\ last_save.ok
    /\ \E g \in last_save.before.gaps :
          /\ \E m \in MatchesOf(last_save.before, last_save.user) : m.id = g.match_id
          /\ g \notin db.gaps
    /\ \E g \in db.gaps : \E m \in MatchesOf(db, last_save.user) : m.id = g.match_id

\* C23: every similarity or gap computation compares two skill sets that
\* went through the same normalization; in particular the coverage and the
\* missing skills that calculate_skill_gaps_dynamic reports for a (user,
\* job) pair are those match_user_to_jobs computes for the pair from the
\* normalized user and job sets.
C23_SameNormalization ==
    (IsSkillGaps /\ \E i \in 1..Len(get_jobs_with_skills(job_postings, job_order)) :
                       get_jobs_with_skills(job_postings, job_order)[i].id = calc_result.job) =>
        LET user_set == get_user_skills(user_skills_emsi[calc_result.user])
            job_set == FoldJobSkills(job_postings[calc_result.job].skills, EmptyDict)
            pair == analyze_skill_gaps(user_set, job_set)
        IN /\ calc_result.value.skill_coverage = pair.coverage
           /\ {g.skill_id : g \in calc_result.value.gaps}
                 = {emsi_skill_id(name) : name \in pair.missing_skills}
           /\ calc_result.value.total_gaps = Cardinality(pair.missing_skills)

\* C24: the ranker's ordering is a strict total order: two distinct
\* candidates of one user never have the same rank tuple, and for a fixed
\* user and a fixed set of postings the list returned by match_user_to_jobs
\* is the same for every order in which the postings are read; the list of
\* get_job_matches has no two entries with the same rank tuple either.
C24_StrictTotalOrder ==
    /\ (pc = "computed" /\ alg = "basic") =>
          /\ \A i, j \in 1..Len(computed) :
                i < j => KeyLess(sort_key(computed[j]), sort_key(computed[i]))
          /\ \A order \in Perms(Jobs) :
                computed = match_user_to_jobs(user_skills_emsi[Head(queue)], job_postings,
                                              order, limit, FALSE)
    /\ \A i, j \in 1..Len(fetched) :
          i < j => KeyLess(sort_key(fetched[j]), sort_key(fetched[i]))

\* C25: every match returned by compute_matches has at least 2 matching
\* skill ids, and so has every MatchResult a TF-IDF recompute stores.
C25_TfidfTwoSkillFloor ==
    /\ (pc = "computed" /\ alg = "tfidf") =>
          \A k \in 1..Len(computed) :
              Cardinality(computed[k].matching_skills) >= MinMatchingSkills
    /\ (last_save # None /\ last_save.ok /\ alg = "tfidf" /\ pc = "loop") =>
          \A m \in MatchesOf(db, last_save.user) :
              Cardinality(m.matching_skills) >= MinMatchingSkills

\* the rows in another read order
Reordered(rows, p) == [i \in 1..Len(rows) |-> rows[p[i]]]

\* the weight a valid row brings to its entry (after the technical boost)
UserRowWeight(row) ==
    IF is_technical_skill(row.name)
    THEN Min(UserWeightCap, (row.weight * UserTechBoostNum) \div 10) ELSE row.weight

JobRowWeight(skill) ==
    LET raw == IF skill.weight = 0 THEN DefaultImportance ELSE skill.weight
    IN IF is_technical_skill(skill.name)
       THEN Min(JobWeightCap, (raw * JobTechBoostNum) \div 10) ELSE raw

ValidRows(rows) == {i \in 1..Len(rows) : is_valid_skill(rows[i].name)}

\* one entry per canonical name of a valid row, holding the maximum of the
\* weights of the rows with that name, whatever the order of the rows
UserSetMergedByMax(rows) ==
    LET set == get_user_skills(rows)
    IN /\ DOMAIN set = {normalize_skill_name(rows[i].name) : i \in ValidRows(rows)}
       /\ \A name \in DOMAIN set :
             LET same == {i \in ValidRows(rows) : normalize_skill_name(rows[i].name) = name}
             IN /\ \E i \in same : set[name] = UserRowWeight(rows[i])
                /\ \A i \in same : set[name] >= UserRowWeight(rows[i])
       /\ \A p \in Perms(1..Len(rows)) : get_user_skills(Reordered(rows, p)) = set

JobSetMergedByMax(rows) ==
    LET set == FoldJobSkills(rows, EmptyDict)
    IN /\ DOMAIN set = {normalize_skill_name(rows[i].name) : i \in ValidRows(rows)}
       /\ \A name \in DOMAIN set :
             LET same == {i \in ValidRows(rows) : normalize_skill_name(rows[i].name) = name}
             IN /\ \E i \in same : set[name] = JobRowWeight(rows[i])
                /\ \A i \in same : set[name] >= JobRowWeight(rows[i])
       /\ \A p \in Perms(1..Len(rows)) : FoldJobSkills(Reordered(rows, p), EmptyDict) = set

AcceptedRows(rows) == SelectSeq(rows, LAMBDA row : is_valid_skill(row.name))

\* C26 (amended): the normalized skill set built by _get_user_skills, and by
\* _get_jobs_with_skills for each job, has one entry per canonical name of
\* an accepted row, holding the maximum of the boosted weights of the rows
\* with that name, and does not depend on the order of the raw rows; a row
\* whose label the validity filter rejects brings nothing to the set.
C26_MergedByMax ==
    (pc = "computed" /\ alg = "basic") =>
        /\ UserSetMergedByMax(user_skills_emsi[Head(queue)])
        /\ get_user_skills(AcceptedRows(user_skills_emsi[Head(queue)]))
              = get_user_skills(user_skills_emsi[Head(queue)])
        /\ \A j \in Jobs :
              /\ JobSetMergedByMax(job_postings[j].skills)
              /\ FoldJobSkills(AcceptedRows(job_postings[j].skills), EmptyDict)
                    = FoldJobSkills(job_postings[j].skills, EmptyDict)

\* the user has two rows of one canonical name with different weights, and a
\* posting has a rejected row and an entry "js" that comes from "javascript"
C26_Witness ==
    /\ pc = "computed" /\ alg = "basic"
    /\ LET rows == user_skills_emsi[Head(queue)]
       IN \E i, k \in ValidRows(rows) :
             /\ i # k
             /\ normalize_skill_name(rows[i].name) = normalize_skill_name(rows[k].name)
             /\ UserRowWeight(rows[i]) < UserRowWeight(rows[k])
    /\ \E j \in Jobs :
          /\ ValidRows(job_postings[j].skills) # 1..Len(job_postings[j].skills)
          /\ "js" \in DOMAIN FoldJobSkills(job_postings[j].skills, EmptyDict)

\* C26 as stated: the set is merged by maximum, does not depend on the order
\* of the raw rows, and every label that the validity filter rejects is
\* absent from the set.
C26_NormalizedSet ==
    (pc = "computed" /\ alg = "basic") =>
        /\ UserSetMergedByMax(user_skills_emsi[Head(queue)])
        /\ \A j \in Jobs : JobSetMergedByMax(job_postings[j].skills)
        /\ \A name \in Labels : ~is_valid_skill(name) =>
              /\ name \notin DOMAIN get_user_skills(user_skills_emsi[Head(queue)])
              /\ \A j \in Jobs : name \notin DOMAIN FoldJobSkills(job_postings[j].skills, EmptyDict)

\* the importance of a skill for a job, as _compute_job_gap_analysis reads it
JobImportance(j, skill_id) ==
    LET raw == DictOfRows(job_postings[j].skills_v2, "importance", EmptyDict)[skill_id]
    IN IF raw = 0 THEN DefaultImportance ELSE raw

\* C27: every SkillGap stored with a MatchResult carries the importance of
\* its skill for the job of the match and the priority that the gap
\* thresholds give to that importance (>= 1.0 high, >= 0.7 medium, else low).
C27_GapImportance ==
    \A g \in db.gaps : \A m \in db.matches :
        m.id = g.match_id =>
            /\ g.importance = JobImportance(m.job_id, g.skill_id)
            /\ g.priority = gap_priority(g.importance)

\* the statistics of a batch at any point of its loop and on return: every
\* enumerated user is counted once or still in the queue, and the batch
\* returns only with an empty queue
BatchCounts ==
    mode = "batch" =>
        /\ stats.processed_users + stats.failed_users + Len(queue) = stats.total_users
        /\ \A i, k \in 1..Len(queue) : queue[i] = queue[k] => i = k
        /\ pc = "idle" => queue = <<>>

\* the MatchResults that a step stores
StoredByStep == {m \in db'.matches : \A o \in db.matches : o.id # m.id}

\* one step of the batch loop: the loop goes from the head of the queue
\* through invalidation, computation and save back to the loop with the head
\* removed; the step that counts a user as processed adds to total_matches
\* the number of MatchResults it stores, all of them of that user; no other
\* step stores a MatchResult or changes the statistics except the count of
\* failures
BatchStep ==
    /\ (pc = "idle" /\ mode' = "batch" /\ pc' = "loop") =>
          /\ stats'.processed_users = 0 /\ stats'.failed_users = 0
          /\ stats'.total_matches = 0
          /\ stats'.total_users = Len(queue')
    /\ (mode = "batch" /\ pc # "idle" /\ mode' = "batch") =>
          /\ stats'.total_users = stats.total_users
          /\ stats'.total_matches = stats.total_matches + Cardinality(StoredByStep)
          /\ \A m \in StoredByStep : m.user_id = Head(queue)
          /\ IF stats'.processed_users # stats.processed_users
             THEN /\ stats'.processed_users = stats.processed_users + 1
                  /\ stats'.failed_users = stats.failed_users
                  /\ queue' = Tail(queue)
             ELSE IF stats'.failed_users # stats.failed_users
             THEN /\ stats'.failed_users = stats.failed_users + 1
                  /\ StoredByStep = {}
                  /\ queue' = Tail(queue)
             ELSE /\ StoredByStep = {}
                  /\ queue' = queue
                  /\ pc' # "loop"

\* C28: recompute_all_matches attempts each enumerated user exactly once,
\* and on return processed_users + failed_users = total_users and
\* total_matches is the sum, over the processed users, of the number of
\* MatchResults saved for that user in this run.
C28_BatchStatistics == []BatchCounts /\ [][BatchStep]_vars

\* a batch has returned after one user failed and two were processed, one of
\* them with a save that rolled back, having stored matches
C28_Witness ==
    /\ pc = "idle" /\ mode = "batch"
    /\ stats.failed_users = 1 /\ stats.processed_users = 2
    /\ stats.total_matches >= 1
    /\ \E u \in Users : truth[u] = "ok"
    /\ Cardinality({u \in Users : truth[u] = "failed"}) = 2

\* the industries for which the user has an alignment row in the recent
\* period, and the current (latest) alignment of the user for an industry
RecentIndustries(u) ==
    {r.industry_category : r \in {q \in alignments :
        q.user_id = u /\ q.calculated_at >= now - TopWindowDays * HalfHoursPerDay}}

CurrentAlignment(u, industry) ==
    LET mine == {r \in alignments : r.user_id = u /\ r.industry_category = industry}
        latest == CHOOSE r \in mine : \A q \in mine :
                      \/ q.calculated_at < r.calculated_at
                      \/ q.calculated_at = r.calculated_at /\ q.id <= r.id
    IN latest.alignment_score

ReturnedIndustries ==
    UNION {DOMAIN al_last.result.timeline[i].industries : i \in DOMAIN al_last.result.timeline}

\* C29: get_top_industries_timeline returns timelines for the top_n distinct
\* industries with the highest current alignment of the user; it returns
\* fewer than top_n industries only when the user has fewer than top_n
\* industries with alignment rows in the recent period.
C29_TopDistinctIndustries ==
    (/\ al_last # None /\ al_last.op = "alignment_timeline"
     /\ ~al_last.result.fallback
     /\ al_last.result.days_back = TimelineDays) =>
        /\ Cardinality(ReturnedIndustries)
              = Min(al_last.result.top_n, Cardinality(RecentIndustries(al_last.user)))
        /\ \A k \in ReturnedIndustries : \A o \in RecentIndustries(al_last.user) \ ReturnedIndustries :
              CurrentAlignment(al_last.user, k) >= CurrentAlignment(al_last.user, o)

\* the number of gap entries listed under gaps_by_category
ListedGaps(report) ==
    SumOver(DOMAIN report.gaps_by_category,
            [category \in DOMAIN report.gaps_by_category |->
                Cardinality(report.gaps_by_category[category])])

\* C30: in every successful report of calculate_skill_gaps_dynamic,
\* total_gaps is the sum of the three priority counts and the number of gap
\* entries listed under gaps_by_category, and no category is empty.
C30_GapCounts ==
    IsSkillGaps =>
        LET report == calc_result.value
        IN /\ report.total_gaps = report.high_priority_gaps + report.medium_priority_gaps
                                     + report.low_priority_gaps
           /\ report.total_gaps = ListedGaps(report)
           /\ \A category \in DOMAIN report.gaps_by_category :
                 report.gaps_by_category[category] # {}

====
